---- MODULE Spec2Model ----
(***************************************************************************)
(* A model of the ozzo-di dependency injection container                   *)
(* (src/container.go), with the types and functions of its tests           *)
(* (src/container_test.go) as the inputs.                                  *)
(*                                                                         *)
(* A type is a sequence of strings: a named type is <<name>> and the       *)
(* pointer to t is <<"*">> \o t.  A reflect.Value is a record of one       *)
(* shape (Val), a pointer is an address of the heap, and build/inject are  *)
(* recursive operators that thread the program state (bindings, parent     *)
(* links, heap, provider closures) through their calls.                    *)
(***************************************************************************)
EXTENDS Integers, Sequences, FiniteSets, TLC

VARIABLES vals, parent, heap, provs, last, nops

vars == <<vals, parent, heap, provs, last, nops>>

(***************************************************************************)
(* Bounds of the model.                                                    *)
(***************************************************************************)
\* depth of nested build calls explored before a resolution counts as not returning
MaxDepth == 12
\* operations per behaviour under Spec
MaxOps == 3

(***************************************************************************)
(* Types: reflect.Type of the types of container_test.go.                  *)
(***************************************************************************)
IntT == <<"int">>
StringT == <<"string">>
FooT == <<"Foo">>
BarT == <<"Bar">>
WriterT == <<"Writer">>
ResponseWriterT == <<"ResponseWriter">>
RequestT == <<"Request">>
ContextT == <<"Context">>
ControllerT == <<"Controller">>
TeeT == <<"Tee">>
\* a struct of a caller that holds a Request in a field without the tag and
\* in a tagged field that is not exported
PageT == <<"Page">>
\* an interface of a caller with the method set of Bar
TesterT == <<"Tester">>
\* a struct of a caller whose tagged field Next is a pointer to the struct
NodeT == <<"Node">>
SliceIntT == <<"[]int">>
MapStringFooT == <<"map[string]Foo">>
ChanFooT == <<"chan Foo">>
FuncT == <<"func">>

PtrTo(t) == <<"*">> \o t

Elem(t) == Tail(t)

Kind(t) ==
  IF Head(t) = "*" THEN "ptr"
  ELSE CASE Head(t) = "int" -> "int"
         [] Head(t) = "string" -> "string"
         [] Head(t) \in {"Foo", "ResponseWriter", "Request", "Context", "Controller", "Tee", "Page", "Node"} -> "struct"
         [] Head(t) \in {"Bar", "Writer", "Tester"} -> "interface"
         [] Head(t) = "[]int" -> "slice"
         [] Head(t) = "map[string]Foo" -> "map"
         [] Head(t) = "chan Foo" -> "chan"
         [] Head(t) = "func" -> "func"
         [] OTHER -> "invalid"

\* one struct field: its type, whether it is exported, and Tag.Get("inject")
Fld(name, type, exported, tag) ==
  [name |-> name, type |-> type, exported |-> exported, tag |-> tag]

Fields(t) ==
  CASE t = FooT -> << Fld("a", StringT, FALSE, "") >>
    [] t = ResponseWriterT -> << Fld("Foo", PtrTo(FooT), TRUE, "true"),
                                 Fld("t", IntT, FALSE, "") >>
    [] t = RequestT -> << Fld("Bar", BarT, TRUE, "true") >>
    [] t = ContextT -> << Fld("data", StringT, FALSE, "") >>
    [] t = ControllerT -> << Fld("Context", PtrTo(ContextT), TRUE, "true"),
                             Fld("Response", WriterT, TRUE, "true"),
                             Fld("response", WriterT, FALSE, "true"),
                             Fld("Response2", WriterT, TRUE, "true"),
                             Fld("Response3", WriterT, TRUE, ""),
                             Fld("Request", RequestT, TRUE, "true"),
                             Fld("action", StringT, FALSE, "") >>
    [] t = TeeT -> << Fld("Foo", FooT, TRUE, ""),
                      Fld("bar", BarT, FALSE, "") >>
    [] t = PageT -> << Fld("Request", RequestT, TRUE, ""),
                       Fld("request", RequestT, FALSE, "true") >>
    [] t = NodeT -> << Fld("Next", PtrTo(NodeT), TRUE, "true") >>
    [] OTHER -> << >>

\* the method set of a type
Methods(t) ==
  CASE t = PtrTo(FooT) -> {"test"}
    [] t = BarT -> {"test"}
    [] t = TesterT -> {"test"}
    [] t = PtrTo(ResponseWriterT) -> {"Write"}
    [] t = WriterT -> {"Write"}
    [] OTHER -> {}

Implements(vt, t) == Kind(t) = "interface" /\ Methods(t) \subseteq Methods(vt)

AssignableTo(vt, t) == vt = t \/ Implements(vt, t)

\* reflect's Type.ConvertibleTo: assignable, or a conversion between basic kinds
\* (an integer converts to a string, a string does not convert to an integer)
ConvertibleTo(vt, t) ==
  \/ AssignableTo(vt, t)
  \/ Kind(vt) = "int" /\ Kind(t) \in {"int", "string"}

(***************************************************************************)
(* Values: reflect.Value.  valid is FALSE for the zero Value; s is the     *)
(* text of a number or string, p the address held by a pointer, slice, map *)
(* or channel (0 is nil), f the fields of a struct, dyn the dynamic value  *)
(* of an interface (empty is nil), addr the heap cell an addressable Value *)
(* refers to (0: not addressable).                                         *)
(***************************************************************************)
Val(t, s, p, f, dyn) ==
  [valid |-> TRUE, t |-> t, s |-> s, p |-> p, f |-> f, dyn |-> dyn, addr |-> 0]

ZeroValue == [valid |-> FALSE, t |-> <<"invalid">>, s |-> "", p |-> 0,
              f |-> << >>, dyn |-> << >>, addr |-> 0]

NoVal == ZeroValue

IntV(s) == Val(IntT, s, 0, << >>, << >>)
StringV(s) == Val(StringT, s, 0, << >>, << >>)
PtrV(t, p) == Val(t, "", p, << >>, << >>)
FooV(a) == Val(FooT, "", 0, << StringV(a) >>, << >>)
ContextV(d) == Val(ContextT, "", 0, << StringV(d) >>, << >>)

RECURSIVE Zero(_)
\* the zero value of a type
Zero(t) ==
  CASE Kind(t) = "int" -> IntV("0")
    [] Kind(t) = "struct" ->
         Val(t, "", 0, [i \in 1..Len(Fields(t)) |-> Zero(Fields(t)[i].type)], << >>)
    [] OTHER -> Val(t, "", 0, << >>, << >>)


(***************************************************************************)
(* The program state threaded through one operation: the bindings of every *)
(* container (values), the parent links, the heap, the provider closures   *)
(* and the log of the build calls made by the operation.                   *)
(***************************************************************************)
\* a child, its parent, and a third container that is made the parent of the
\* parent or a second child of it
Containers == {"c", "p", "g"}

\* the child and its parent
Pair == {"c", "p"}

NoParent == "nil"

\* a value of the map container.values: an instance (reflect.Value), an alias
\* (reflect.Type) or a providerBinding
Instance(v) == [k |-> "instance", v |-> v, a |-> << >>, id |-> 0, shared |-> FALSE]
Alias(a) == [k |-> "alias", v |-> NoVal, a |-> a, id |-> 0, shared |-> FALSE]
ProviderBinding(id, shared) ==
  [k |-> "provider", v |-> NoVal, a |-> << >>, id |-> id, shared |-> shared]

\* m[k] = v of a Go map
Put(m, k, v) == [x \in DOMAIN m \cup {k} |-> IF x = k THEN v ELSE m[x]]

\* delete(m, k) of a Go map
Delete(m, k) == [x \in DOMAIN m \ {k} |-> m[x]]

EmptyMap == [x \in {} |-> Instance(NoVal)]

\* the outcome of a call: the state it leaves, the Value it returns, and whether
\* it returned ("ok"), panicked ("panic") or exhausted the depth ("diverge")
R(st, v, status) == [st |-> st, v |-> v, status |-> status]

Ok(st, v) == R(st, v, "ok")

Panic(st) == R(st, NoVal, "panic")

Diverge(st) == R(st, NoVal, "diverge")

\* a new heap cell holding v; its address is the new length of the heap
Alloc(st, v) == [st EXCEPT !.heap = Append(@, v)]

NewAddr(st) == Len(st.heap) + 1

\* the addressable Value that refers to heap cell a
At(st, a) == [st.heap[a] EXCEPT !.addr = a]

\* the current contents of a Value (an addressable Value reads its cell)
Cur(st, v) == IF v.valid /\ v.addr # 0 THEN At(st, v.addr) ELSE v

\* the contents of a Value, copied out of its cell
Content(st, v) == [Cur(st, v) EXCEPT !.addr = 0]

\* reflect.New(t).Elem(): a new cell holding the zero value of t, addressable
NewZero(st, t) == Ok(Alloc(st, Zero(t)), At(Alloc(st, Zero(t)), NewAddr(st)))

\* Value.CanAddr
CanAddr(v) == v.valid /\ v.addr # 0

\* Value.Addr of an addressable Value
Addr(v) == PtrV(PtrTo(v.t), v.addr)

\* Value.Kind: Invalid for the zero Value
KindOf(v) == IF v.valid THEN Kind(v.t) ELSE "invalid"

\* Value.Elem: the pointee of a pointer (the zero Value for a nil pointer), the
\* dynamic value of an interface; a panic for any other kind
ElemOf(st, v) ==
  CASE KindOf(v) = "ptr" ->
         IF Cur(st, v).p = 0 THEN Ok(st, ZeroValue)
         ELSE Ok(st, [At(st, Cur(st, v).p) EXCEPT !.t = Elem(v.t)])
    [] KindOf(v) = "interface" ->
         IF Cur(st, v).dyn = << >> THEN Ok(st, ZeroValue)
         ELSE Ok(st, Cur(st, v).dyn[1])
    [] OTHER -> Panic(st)

NilInterface == Val(<<"nil">>, "", 0, << >>, << >>)

\* Value.Interface: a copy of the contents; the dynamic value of an interface
\* Value (nil for a nil one).  The caller checks validity: it panics on the zero Value.
InterfaceOf(st, v) ==
  IF KindOf(v) = "interface"
  THEN IF Cur(st, v).dyn = << >> THEN NilInterface ELSE Cur(st, v).dyn[1]
  ELSE Content(st, v)

\* whether Value.Set and Value.Call accept x for a place of type t
Accepts(x, t) == x.valid /\ AssignableTo(x.t, t)

\* what a place of type t holds after x is assigned to it
Assigned(st, x, t) ==
  IF Kind(t) = "interface"
  THEN IF Kind(x.t) = "interface"
       THEN [Content(st, x) EXCEPT !.t = t]
       ELSE Val(t, "", 0, << >>, << Content(st, x) >>)
  ELSE Content(st, x)

\* f.Set(x) for field i of the struct in heap cell a
SetField(st, a, i, x) ==
  [st EXCEPT !.heap[a].f[i] = Assigned(st, x, Fields(st.heap[a].t)[i].type)]

\* one entry of the log: container c served a build of t through branch via
Logged(st, c, t, via) == [st EXCEPT !.log = Append(@, [c |-> c, t |-> t, via |-> via])]

(***************************************************************************)
(* Providers: the Provider functions of the tests.  Each registration      *)
(* makes a closure, provs[id], which counts its invocations (calls) and    *)
(* keeps the container it was last called with (arg) and the Value it      *)
(* last returned (out).                                                    *)
(***************************************************************************)
\* func(Container) reflect.Value { return reflect.ValueOf(&Foo{"abc"}) }
\* func(Container) reflect.Value { return reflect.ValueOf(Foo{}) }
ProviderFuncs == {"newPFoo", "valFoo"}

Closure(fn, c, t, shared) ==
  [fn |-> fn, c |-> c, t |-> t, shared |-> shared, calls |-> 0, arg |-> NoParent,
   out |-> NoVal, live |-> TRUE]

RECURSIVE build(_, _, _, _), inject(_, _, _, _), injectFields(_, _, _, _, _), Deref(_, _)

ResponseWriterV(foo, n) == Val(ResponseWriterT, "", 0, << PtrV(PtrTo(FooT), foo), IntV(n) >>, << >>)

\* a provider that resolves through the container it is called with:
\* func(c Container) reflect.Value {
\*     return reflect.ValueOf(&ResponseWriter{Foo: c.Make(reflect.TypeOf(&Foo{})).(*Foo)})
\* }
\* r is what c.build(*Foo) ended as; Make and the type assertion panic on the
\* zero Value and on a value that is no *Foo
newWriter(r) ==
  IF r.status # "ok" THEN r
  ELSE IF ~r.v.valid \/ r.v.t # PtrTo(FooT) THEN Panic(r.st)
  ELSE Ok(Alloc(r.st, ResponseWriterV(Cur(r.st, r.v).p, "0")),
          PtrV(PtrTo(ResponseWriterT), NewAddr(r.st)))

\* the Value the provider function fn returns in state st, called with c
Produce(st, fn, c) ==
  CASE fn = "newPFoo" -> Ok(Alloc(st, FooV("abc")), PtrV(PtrTo(FooT), NewAddr(st)))
    [] fn = "newWriter" -> newWriter(build(st, c, PtrTo(FooT), MaxDepth))
    [] OTHER -> Ok(st, FooV(""))

\* the provider has ended as r: the closure id was invoked with container c
Invoked(r, id, c) ==
  R([r.st EXCEPT !.provs[id].calls = @ + 1,
                 !.provs[id].arg = c,
                 !.provs[id].out = r.v], r.v, r.status)

\* fb.provider(c)
Invoke(st, id, c) == Invoked(Produce(st, st.provs[id].fn, c), id, c)

(***************************************************************************)
(* container.build and container.inject.                                   *)
(***************************************************************************)

\* for v.Kind() == reflect.Ptr { v = v.Elem() }
Deref(st, v) == IF KindOf(v) = "ptr" THEN Deref(st, ElemOf(st, v).v) ELSE v

\* injectFields that resolves the type of a tagged field before it finds
\* that the field cannot be set
injectFieldsResolving(st, c, v, i, fuel) ==
  IF i > Len(Fields(v.t)) THEN Ok(st, v)
  ELSE LET tf == Fields(v.t)[i]
       IN IF tf.exported /\ tf.tag # ""
          THEN LET r == build(st, c, tf.type, fuel)
               IN IF r.status # "ok" THEN r
                  ELSE IF ~CanAddr(v) THEN injectFields(r.st, c, v, i + 1, fuel)
                  ELSE IF ~Accepts(r.v, tf.type) THEN Panic(r.st)
                  ELSE injectFields(SetField(r.st, v.addr, i, r.v), c, v, i + 1, fuel)
          ELSE injectFields(st, c, v, i + 1, fuel)

\* the loop over the fields of the struct Value v, from field i on
injectFields(st, c, v, i, fuel) ==
  IF i > Len(Fields(v.t)) THEN Ok(st, v)
  ELSE LET tf == Fields(v.t)[i]
       IN IF CanAddr(v) /\ tf.exported /\ tf.tag # ""
          THEN LET r == build(st, c, tf.type, fuel)
               IN IF r.status # "ok" THEN r
                  ELSE IF ~Accepts(r.v, tf.type) THEN Panic(r.st)
                  ELSE injectFields(SetField(r.st, v.addr, i, r.v), c, v, i + 1, fuel)
          ELSE injectFields(st, c, v, i + 1, fuel)

inject(st, c, v, fuel) ==
  IF KindOf(Deref(st, v)) # "struct" THEN Ok(st, v)
  ELSE injectFields(st, c, Deref(st, v), 1, fuel)

\* buildBound that keeps the value an alias resolved to under the alias
buildBoundAliasKept(st, c, t, fuel) ==
  LET val == st.vals[c][t]
  IN CASE val.k = "alias" ->
            LET r == build(Logged(st, c, t, "alias"), c, val.a, fuel - 1)
            IN IF r.status # "ok" THEN r
               ELSE Ok([r.st EXCEPT !.vals[c] = Put(@, t, Instance(r.v))], r.v)
       [] val.k = "provider" ->
            LET r == Invoke(Logged(st, c, t, "provider"), val.id, c)
            IN IF ~val.shared THEN r
               ELSE Ok([r.st EXCEPT !.vals[c] = Put(@, t, Instance(r.v))], r.v)
       [] OTHER -> Ok(Logged(st, c, t, "instance"), val.v)

\* buildBound without the shared branch: the provider's value is never kept
buildBoundNeverKept(st, c, t, fuel) ==
  LET val == st.vals[c][t]
  IN CASE val.k = "alias" -> build(Logged(st, c, t, "alias"), c, val.a, fuel - 1)
       [] val.k = "provider" -> Invoke(Logged(st, c, t, "provider"), val.id, c)
       [] OTHER -> Ok(Logged(st, c, t, "instance"), val.v)

\* buildBound without the test of shared: the provider's value is always kept
buildBoundAlwaysKept(st, c, t, fuel) ==
  LET val == st.vals[c][t]
  IN CASE val.k = "alias" -> build(Logged(st, c, t, "alias"), c, val.a, fuel - 1)
       [] val.k = "provider" ->
            LET r == Invoke(Logged(st, c, t, "provider"), val.id, c)
            IN Ok([r.st EXCEPT !.vals[c] = Put(@, t, Instance(r.v))], r.v)
       [] OTHER -> Ok(Logged(st, c, t, "instance"), val.v)

\* the binding found for t: c.values[t]
buildBound(st, c, t, fuel) ==
  LET val == st.vals[c][t]
  IN CASE val.k = "alias" -> build(Logged(st, c, t, "alias"), c, val.a, fuel - 1)
       [] val.k = "provider" ->
            LET r == Invoke(Logged(st, c, t, "provider"), val.id, c)
            IN IF ~val.shared \/ r.status # "ok" THEN r
               ELSE Ok([r.st EXCEPT !.vals[c] = Put(@, t, Instance(r.v))], r.v)
       [] OTHER -> Ok(Logged(st, c, t, "instance"), val.v)

\* build from scratch
buildScratch(st, c, t, fuel) ==
  CASE Kind(t) = "struct" ->
         LET a == NewAddr(st)
             r == inject(Alloc(Logged(st, c, t, "struct"), Zero(t)), c,
                         PtrV(PtrTo(t), a), fuel - 1)
         IN IF r.status # "ok" THEN r ELSE Ok(r.st, At(r.st, a))
    [] Kind(t) \in {"slice", "map", "chan"} ->
         Ok(Alloc(Logged(st, c, t, Kind(t)), Zero(t)), PtrV(t, NewAddr(st)))
    [] Kind(t) = "ptr" ->
         LET r == build(Logged(st, c, t, "ptr"), c, Elem(t), fuel - 1)
         IN IF r.status # "ok" THEN r
            ELSE IF CanAddr(r.v) THEN Ok(r.st, Addr(r.v))
            ELSE NewZero(r.st, t)
    [] OTHER -> NewZero(Logged(st, c, t, "zero"), t)

\* build that asks the parent before its own bindings
buildParentBeforeBound(st, c, t, fuel) ==
  IF fuel = 0 THEN Diverge(st)
  ELSE IF st.parent[c] # NoParent
       THEN build(Logged(st, c, t, "parent"), st.parent[c], t, fuel - 1)
  ELSE IF t \in DOMAIN st.vals[c] THEN buildBound(st, c, t, fuel)
  ELSE IF PtrTo(t) \in DOMAIN st.vals[c]
       THEN LET r == build(Logged(st, c, t, "pointer"), c, PtrTo(t), fuel - 1)
            IN IF r.status # "ok" THEN r ELSE ElemOf(r.st, r.v)
  ELSE buildScratch(st, c, t, fuel)

\* build that binds what the parent returned in the container that asked
buildParentKept(st, c, t, fuel) ==
  IF fuel = 0 THEN Diverge(st)
  ELSE IF t \in DOMAIN st.vals[c] THEN buildBound(st, c, t, fuel)
  ELSE IF st.parent[c] # NoParent
       THEN LET r == build(Logged(st, c, t, "parent"), st.parent[c], t, fuel - 1)
            IN IF r.status # "ok" THEN r
               ELSE Ok([r.st EXCEPT !.vals[c] = Put(@, t, Instance(r.v))], r.v)
  ELSE IF PtrTo(t) \in DOMAIN st.vals[c]
       THEN LET r == build(Logged(st, c, t, "pointer"), c, PtrTo(t), fuel - 1)
            IN IF r.status # "ok" THEN r ELSE ElemOf(r.st, r.v)
  ELSE buildScratch(st, c, t, fuel)

\* build that calls a non-shared provider of its parent itself, with the
\* container that was asked
buildParentProviderSelf(st, c, t, fuel) ==
  IF fuel = 0 THEN Diverge(st)
  ELSE IF t \in DOMAIN st.vals[c] THEN buildBound(st, c, t, fuel)
  ELSE IF st.parent[c] # NoParent
       THEN IF /\ t \in DOMAIN st.vals[st.parent[c]]
               /\ st.vals[st.parent[c]][t].k = "provider"
               /\ ~st.vals[st.parent[c]][t].shared
            THEN Invoke(Logged(Logged(st, c, t, "parent"), st.parent[c], t, "provider"),
                        st.vals[st.parent[c]][t].id, c)
            ELSE build(Logged(st, c, t, "parent"), st.parent[c], t, fuel - 1)
  ELSE IF PtrTo(t) \in DOMAIN st.vals[c]
       THEN LET r == build(Logged(st, c, t, "pointer"), c, PtrTo(t), fuel - 1)
            IN IF r.status # "ok" THEN r ELSE ElemOf(r.st, r.v)
  ELSE buildScratch(st, c, t, fuel)

\* build that asks the parent only for what the parent binds
buildParentIfBound(st, c, t, fuel) ==
  IF fuel = 0 THEN Diverge(st)
  ELSE IF t \in DOMAIN st.vals[c] THEN buildBound(st, c, t, fuel)
  ELSE IF st.parent[c] # NoParent /\ t \in DOMAIN st.vals[st.parent[c]]
       THEN build(Logged(st, c, t, "parent"), st.parent[c], t, fuel - 1)
  ELSE IF PtrTo(t) \in DOMAIN st.vals[c]
       THEN LET r == build(Logged(st, c, t, "pointer"), c, PtrTo(t), fuel - 1)
            IN IF r.status # "ok" THEN r ELSE ElemOf(r.st, r.v)
  ELSE buildScratch(st, c, t, fuel)

\* build that tries the pointer version before the parent
buildPointerFirst(st, c, t, fuel) ==
  IF fuel = 0 THEN Diverge(st)
  ELSE IF t \in DOMAIN st.vals[c] THEN buildBound(st, c, t, fuel)
  ELSE IF PtrTo(t) \in DOMAIN st.vals[c]
       THEN LET r == build(Logged(st, c, t, "pointer"), c, PtrTo(t), fuel - 1)
            IN IF r.status # "ok" THEN r ELSE ElemOf(r.st, r.v)
  ELSE IF st.parent[c] # NoParent
       THEN build(Logged(st, c, t, "parent"), st.parent[c], t, fuel - 1)
  ELSE buildScratch(st, c, t, fuel)

build(st, c, t, fuel) ==
  IF fuel = 0 THEN Diverge(st)
  ELSE IF t \in DOMAIN st.vals[c] THEN buildBound(st, c, t, fuel)
  ELSE IF st.parent[c] # NoParent
       THEN build(Logged(st, c, t, "parent"), st.parent[c], t, fuel - 1)
  ELSE IF PtrTo(t) \in DOMAIN st.vals[c]
       THEN LET r == build(Logged(st, c, t, "pointer"), c, PtrTo(t), fuel - 1)
            IN IF r.status # "ok" THEN r ELSE ElemOf(r.st, r.v)
  ELSE buildScratch(st, c, t, fuel)


(***************************************************************************)
(* The values, types and functions the callers of the tests pass in.       *)
(***************************************************************************)
\* the interface value of type t holding v
IfaceV(t, v) == Val(t, "", 0, << >>, << v >>)

\* a value a caller passes, by name: st is the state after the caller has
\* allocated what the value points to, v the value
Arg(st, name) ==
  CASE name = "Foo{abc}" -> Ok(st, FooV("abc"))
    [] name = "&Foo{abc}" -> Ok(Alloc(st, FooV("abc")), PtrV(PtrTo(FooT), NewAddr(st)))
    [] name = "&Foo{123}" -> Ok(Alloc(st, FooV("123")), PtrV(PtrTo(FooT), NewAddr(st)))
    [] name = "(*Foo)(nil)" -> Ok(st, PtrV(PtrTo(FooT), 0))
    [] name = "(*Bar)(nil)" -> Ok(st, PtrV(PtrTo(BarT), 0))
    [] name = "(*Writer)(nil)" -> Ok(st, PtrV(PtrTo(WriterT), 0))
    [] name = "&Context{abc}" ->
         Ok(Alloc(st, ContextV("abc")), PtrV(PtrTo(ContextT), NewAddr(st)))
    [] name = "&ResponseWriter{t:1}" ->
         Ok(Alloc(st, ResponseWriterV(0, "1")), PtrV(PtrTo(ResponseWriterT), NewAddr(st)))
    [] name = "100" -> Ok(st, IntV("100"))
    [] name = "1" -> Ok(st, IntV("1"))
    [] name = "abc" -> Ok(st, StringV("abc"))
    [] name = "&Controller{}" ->
         Ok(Alloc(st, Zero(ControllerT)), PtrV(PtrTo(ControllerT), NewAddr(st)))
    [] name = "&Controller{set}" ->
         Ok(Alloc(st, Val(ControllerT, "", 0,
                          << PtrV(PtrTo(ContextT), 0),
                             IfaceV(WriterT, PtrV(PtrTo(ResponseWriterT), 0)),
                             IfaceV(WriterT, PtrV(PtrTo(ResponseWriterT), 0)),
                             Zero(WriterT),
                             IfaceV(WriterT, PtrV(PtrTo(ResponseWriterT), 0)),
                             Val(RequestT, "", 0, << IfaceV(BarT, PtrV(PtrTo(FooT), 0)) >>, << >>),
                             StringV("index") >>, << >>)),
            PtrV(PtrTo(ControllerT), NewAddr(st)))
    [] name = "Controller{}" -> Ok(st, Zero(ControllerT))
    [] name = "(*Controller)(nil)" -> Ok(st, PtrV(PtrTo(ControllerT), 0))
    [] name = "&Tee{}" -> Ok(Alloc(st, Zero(TeeT)), PtrV(PtrTo(TeeT), NewAddr(st)))
    [] name = "&Node{}" -> Ok(Alloc(st, Zero(NodeT)), PtrV(PtrTo(NodeT), NewAddr(st)))
    [] name = "&Page{set}" ->
         Ok(Alloc(st, Val(PageT, "", 0,
                          << Val(RequestT, "", 0, << IfaceV(BarT, PtrV(PtrTo(FooT), 0)) >>, << >>),
                             Val(RequestT, "", 0, << IfaceV(BarT, PtrV(PtrTo(FooT), 0)) >>, << >>) >>,
                          << >>)),
            PtrV(PtrTo(PageT), NewAddr(st)))
    [] name = "ResponseWriter{}" -> Ok(st, Zero(ResponseWriterT))
    [] name = "&ResponseWriter{}" ->
         Ok(Alloc(st, Zero(ResponseWriterT)), PtrV(PtrTo(ResponseWriterT), NewAddr(st)))

\* func(cc *Context, w Writer, s string) (string, string, string) of TestCall,
\* func(foo *Foo, bar Bar) string, and the number 1, which is no function
IsFunc(f) == f \in {"f3", "f2"}

\* t.NumIn() and t.In(i)
In(f) ==
  CASE f = "f3" -> << PtrTo(ContextT), WriterT, StringT >>
    [] f = "f2" -> << PtrTo(FooT), BarT >>
    [] OTHER -> << >>

\* the body of the function: what it returns for the arguments in, or a panic
\* when it dereferences a nil pointer or calls a method of a nil interface
Apply(st, f, in) ==
  CASE f = "f3" ->
         IF in[1].p = 0 \/ in[2].dyn = << >> THEN Panic(st)
         ELSE Ok(st, << st.heap[in[1].p].f[1], StringV("test"), in[3] >>)
    [] f = "f2" ->
         IF in[1].p = 0 \/ in[2].dyn = << >> \/ in[2].dyn[1].p = 0 THEN Panic(st)
         ELSE Ok(st, << StringV(st.heap[in[1].p].f[1].s \o st.heap[in[2].dyn[1].p].f[1].s) >>)
    [] OTHER -> Panic(st)

(***************************************************************************)
(* The state and the operations of the Container interface.                *)
(***************************************************************************)
\* the program state at the start of an operation
Now == [vals |-> vals, parent |-> parent, heap |-> heap, provs |-> provs, log |-> << >>]

\* what the last operation was and what its caller saw: the operation, its
\* container, type and named argument, how it ended, the value it returned
\* (res; for Register, RegisterAs and Inject the value passed), the arguments
\* and results of the function Call invoked and how often it invoked it, the
\* struct Inject was given as it was before (pre), and the log of build calls
Seen(op, c, t, in, status, res, r) ==
  [op |-> op, c |-> c, t |-> t, in |-> in, status |-> status, res |-> res,
   outs |-> << >>, args |-> << >>, invoked |-> 0, pre |-> NoVal, log |-> r.st.log]

None == [op |-> "none", c |-> NoParent, t |-> << >>, in |-> "", status |-> "ok",
         res |-> NoVal, outs |-> << >>, args |-> << >>, invoked |-> 0, pre |-> NoVal,
         log |-> << >>]

Init ==
  /\ vals = [c \in Containers |-> EmptyMap]
  /\ parent = [c \in Containers |-> NoParent]
  /\ heap = << >>
  /\ provs = << >>
  /\ last = None
  /\ nops = 0

\* fewer than n operations have been performed
Step(n) == nops < n

\* the program runs: a stack overflow ends it
Alive == last.status # "diverge"

\* the state st becomes the program state
Becomes(st) ==
  /\ vals' = st.vals
  /\ parent' = st.parent
  /\ heap' = st.heap
  /\ provs' = st.provs
  /\ nops' = nops + 1

\* the closures bound to t in c are bound no longer
Rebound(ps, c, t) ==
  [i \in 1..Len(ps) |-> IF ps[i].c = c /\ ps[i].t = t THEN [ps[i] EXCEPT !.live = FALSE] ELSE ps[i]]

\* HasRegistered that also looks in the parent
HasRegisteredOrParent(c, t) ==
  t \in DOMAIN vals[c] \/ (parent[c] # NoParent /\ t \in DOMAIN vals[parent[c]])

HasRegistered(c, t) == t \in DOMAIN vals[c]

ParentContainer(c) == parent[c]

\* SetParentContainer that keeps the old parent when given nil
setParentContainerKeep(st, c, q) ==
  IF q = NoParent THEN st ELSE [st EXCEPT !.parent[c] = q]

\* c.parent = parent
setParentContainer(st, c, q) == [st EXCEPT !.parent[c] = q]

SetParentContainer(c, q) ==
  /\ Alive
  /\ Becomes(setParentContainer(Now, c, q))
  /\ last' = Seen("SetParentContainer", c, << >>, q, "ok", NoVal, Ok(Now, NoVal))

\* Unregister that removes every binding of the container
unregisterAll(st, c, t) ==
  [st EXCEPT !.vals[c] = EmptyMap, !.provs = Rebound(@, c, t)]

\* delete(c.values, t)
unregister(st, c, t) == [st EXCEPT !.vals[c] = Delete(@, t), !.provs = Rebound(@, c, t)]

Unregister(c, t) ==
  /\ Alive
  /\ Becomes(unregister(Now, c, t))
  /\ last' = Seen("Unregister", c, t, "", "ok", NoVal, Ok(Now, NoVal))

\* registerIn storing a new zero value of the type instead of the value
registerInZero(st, c, v) ==
  [st EXCEPT !.vals[c] = Put(@, v.t, Instance(Zero(v.t))), !.provs = Rebound(@, c, v.t)]

\* c.values[reflect.TypeOf(val)] = reflect.ValueOf(val)
registerIn(st, c, v) ==
  [st EXCEPT !.vals[c] = Put(@, v.t, Instance(v)), !.provs = Rebound(@, c, v.t)]

Register(c, name) ==
  LET a == Arg(Now, name)
  IN /\ Alive
     /\ Becomes(registerIn(a.st, c, a.v))
     /\ last' = Seen("Register", c, a.v.t, name, "ok", a.v, a)

\* a type passed as a value: reflect.TypeOf(x)
IsType(name) ==
  name \in {"TypeOf(&Foo{})", "TypeOf(&ResponseWriter{})", "TypeOf(Foo{})",
            "InterfaceOf((*Bar)(nil))", "InterfaceOf((*Tester)(nil))"}

TypeArg(name) ==
  CASE name = "TypeOf(&Foo{})" -> PtrTo(FooT)
    [] name = "TypeOf(&ResponseWriter{})" -> PtrTo(ResponseWriterT)
    [] name = "TypeOf(Foo{})" -> FooT
    [] name = "InterfaceOf((*Bar)(nil))" -> BarT
    [] name = "InterfaceOf((*Tester)(nil))" -> TesterT

\* registerTypeAs that rejects an alias of a type that is an alias of t
registerTypeAsGuarded(st, c, vt, t) ==
  IF ~ConvertibleTo(vt, t) THEN Panic(st)
  ELSE IF vt \in DOMAIN st.vals[c] /\ st.vals[c][vt] = Alias(t) THEN Panic(st)
  ELSE Ok([st EXCEPT !.vals[c] = Put(@, t, Alias(vt)), !.provs = Rebound(@, c, t)], NoVal)

\* RegisterAs of the type vt (val is a reflect.Type): an alias
registerTypeAs(st, c, vt, t) ==
  IF ~ConvertibleTo(vt, t) THEN Panic(st)
  ELSE Ok([st EXCEPT !.vals[c] = Put(@, t, Alias(vt)), !.provs = Rebound(@, c, t)], NoVal)

\* registerValueAs without the test of convertibility
registerValueAsUnchecked(st, c, v, t) ==
  Ok([st EXCEPT !.vals[c] = Put(@, t, Instance(v)), !.provs = Rebound(@, c, t)], v)

\* registerValueAs binding the type of the value instead of t
registerValueAsOwnType(st, c, v, t) ==
  IF ~ConvertibleTo(v.t, t) THEN Panic(st)
  ELSE Ok([st EXCEPT !.vals[c] = Put(@, v.t, Instance(v)), !.provs = Rebound(@, c, v.t)], v)

\* RegisterAs of the value v: an instance
registerValueAs(st, c, v, t) ==
  IF ~ConvertibleTo(v.t, t) THEN Panic(st)
  ELSE Ok([st EXCEPT !.vals[c] = Put(@, t, Instance(v)), !.provs = Rebound(@, c, t)], v)

registerAs(st, c, name, t) ==
  IF IsType(name) THEN registerTypeAs(st, c, TypeArg(name), t)
  ELSE registerValueAs(Arg(st, name).st, c, Arg(st, name).v, t)

RegisterAs(c, name, t) ==
  LET r == registerAs(Now, c, name, t)
  IN /\ Alive
     /\ Becomes(r.st)
     /\ last' = Seen("RegisterAs", c, t, name, r.status,
                     IF IsType(name) THEN NoVal ELSE Arg(Now, name).v, r)

\* registerProviderIn that keeps the binding the type already has
registerProviderInUnbound(st, c, fn, t, shared) ==
  IF t \in DOMAIN st.vals[c] THEN st
  ELSE [st EXCEPT !.provs = Append(Rebound(@, c, t), Closure(fn, c, t, shared)),
                  !.vals[c] = Put(@, t, ProviderBinding(Len(st.provs) + 1, shared))]

\* c.values[t] = providerBinding{p, shared}
registerProviderIn(st, c, fn, t, shared) ==
  [st EXCEPT !.provs = Append(Rebound(@, c, t), Closure(fn, c, t, shared)),
             !.vals[c] = Put(@, t, ProviderBinding(Len(st.provs) + 1, shared))]

RegisterProvider(c, fn, t, shared) ==
  /\ Alive
  /\ Becomes(registerProviderIn(Now, c, fn, t, shared))
  /\ last' = Seen("RegisterProvider", c, t, fn, "ok", NoVal, Ok(Now, NoVal))

\* make that binds what it built to the type
makeKept(st, c, t) ==
  LET r == build(st, c, t, MaxDepth)
  IN IF r.status # "ok" THEN r
     ELSE IF ~r.v.valid THEN Panic(r.st)
     ELSE Ok([r.st EXCEPT !.vals[c] = Put(@, t, Instance(r.v))], InterfaceOf(r.st, r.v))

\* c.build(t).Interface(): Interface panics on the zero Value
make(st, c, t) ==
  LET r == build(st, c, t, MaxDepth)
  IN IF r.status # "ok" THEN r
     ELSE IF ~r.v.valid THEN Panic(r.st)
     ELSE Ok(r.st, InterfaceOf(r.st, r.v))

Make(c, t) ==
  LET r == make(Now, c, t)
  IN /\ Alive
     /\ Becomes(r.st)
     /\ last' = Seen("Make", c, t, "", r.status, r.v, r)


\* the outcome of Call: as R, with the arguments the function was invoked with
\* and how often it was invoked
Called(r, args, invoked) ==
  [st |-> r.st, v |-> r.v, status |-> r.status, args |-> args, invoked |-> invoked]

RECURSIVE buildIn(_, _, _, _, _), buildInNext(_, _, _, _, _)

\* in[i] = c.build(t.In(i)) for the parameters from i on; in holds the earlier ones
buildIn(st, c, ts, i, in) ==
  IF i > Len(ts) THEN Ok(st, in)
  ELSE buildInNext(build(st, c, ts[i], MaxDepth), c, ts, i, in)

\* the loop goes on after build has returned r for parameter i
buildInNext(r, c, ts, i, in) ==
  IF r.status # "ok" THEN R(r.st, in, r.status)
  ELSE buildIn(r.st, c, ts, i + 1, Append(in, r.v))

\* reflect.ValueOf(f).Call(in) and the Interface() of each result
invoke(st, f, in) ==
  LET a == Apply(st, f, in)
  IN Called(IF a.status = "ok" THEN a ELSE R(a.st, << >>, a.status), in, 1)

\* Value.Call on the outcome r of the loop: it panics on an argument that is
\* the zero Value or is not assignable to its parameter
callBuilt(r, f) ==
  IF r.status # "ok" THEN Called(R(r.st, << >>, r.status), << >>, 0)
  ELSE IF \E i \in 1..Len(In(f)) : ~Accepts(r.v[i], In(f)[i])
       THEN Called(R(r.st, << >>, "panic"), << >>, 0)
  ELSE invoke(r.st, f, [i \in 1..Len(In(f)) |-> Assigned(r.st, r.v[i], In(f)[i])])

\* Call: NumIn panics when f is no function
call(st, c, f) ==
  IF ~IsFunc(f) THEN Called(Panic(st), << >>, 0)
  ELSE callBuilt(buildIn(st, c, In(f), 1, << >>), f)

\* Call has ended as r
CallEnds(c, f, r) ==
  /\ Becomes(r.st)
  /\ last' = [Seen("Call", c, << >>, f, r.status, NoVal, r)
                EXCEPT !.outs = r.v, !.args = r.args, !.invoked = r.invoked]

Call(c, f) == Alive /\ CallEnds(c, f, call(Now, c, f))

Inject(c, name) ==
  LET a == Arg(Now, name)
      r == inject(a.st, c, a.v, MaxDepth)
  IN /\ Alive
     /\ Becomes(r.st)
     /\ last' = [Seen("Inject", c, a.v.t, name, r.status, a.v, r)
                   EXCEPT !.pre = Content(a.st, Deref(a.st, a.v))]

\* the caller assigns to the field a of the Foo it was last returned:
\* foo1.a = "test", through the pointer or in its own copy
Mutate ==
  /\ Alive
  /\ last.op \in {"Make", "Mutate"}
  /\ last.status = "ok"
  /\ \/ /\ last.res.t = PtrTo(FooT)
        /\ last.res.p # 0
        /\ Becomes([Now EXCEPT !.heap[last.res.p].f[1] = StringV("test")])
        /\ last' = [last EXCEPT !.op = "Mutate"]
     \/ /\ last.res.t = FooT
        /\ Becomes(Now)
        /\ last' = [last EXCEPT !.op = "Mutate", !.res.f[1] = StringV("test")]

(***************************************************************************)
(* The specification: every operation, with the values, types and         *)
(* functions of the tests; aliases, providers, Call and Inject on c.       *)
(***************************************************************************)
Values == {"Foo{abc}", "&Foo{abc}", "(*Foo)(nil)", "&Context{abc}", "100"}

AsArgs == {"&Foo{123}", "&ResponseWriter{t:1}", "100", "TypeOf(&Foo{})",
           "TypeOf(&ResponseWriter{})"}

AsTypes == {BarT, WriterT, StringT}

ProviderTypes == {PtrTo(FooT), BarT}

Types == {FooT, PtrTo(FooT), BarT, WriterT, StringT, PtrTo(ResponseWriterT),
          ControllerT, SliceIntT}

Funcs == {"f3", "f2", "1"}

Targets == {"&Controller{}", "&Controller{set}", "Controller{}", "1", "&Tee{}"}

Unregistered == {FooT, PtrTo(FooT), BarT}

Next ==
  \/ \E c \in Pair, q \in Pair \cup {NoParent} :
       Step(MaxOps) /\ SetParentContainer(c, q)
  \/ \E c \in Pair, t \in Unregistered : Step(MaxOps) /\ Unregister(c, t)
  \/ \E c \in Pair, v \in Values : Step(MaxOps) /\ Register(c, v)
  \/ \E v \in AsArgs, t \in AsTypes : Step(MaxOps) /\ RegisterAs("c", v, t)
  \/ \E fn \in ProviderFuncs, t \in ProviderTypes, shared \in BOOLEAN :
       Step(MaxOps) /\ RegisterProvider("c", fn, t, shared)
  \/ \E c \in Pair, t \in Types : Step(MaxOps) /\ Make(c, t)
  \/ \E f \in Funcs : Step(MaxOps) /\ Call("c", f)
  \/ \E x \in Targets : Step(MaxOps) /\ Inject("c", x)
  \/ Step(MaxOps) /\ Mutate

Spec == Init /\ [][Next]_vars


(***************************************************************************)
(* Providers on one container: registration of the two provider functions  *)
(* as *Foo and as Bar, shared or not, and every way to resolve them.       *)
(***************************************************************************)
\* operations per behaviour under SpecProvider
OpsProvider == 4

NextProvider ==
  \/ \E fn \in ProviderFuncs, t \in ProviderTypes, shared \in BOOLEAN :
       Step(OpsProvider) /\ RegisterProvider("c", fn, t, shared)
  \/ Step(OpsProvider) /\ Register("c", "&Foo{abc}")
  \/ Step(OpsProvider) /\ Unregister("c", PtrTo(FooT))
  \/ \E t \in {FooT, PtrTo(FooT), BarT} : Step(OpsProvider) /\ Make("c", t)
  \/ Step(OpsProvider) /\ Call("c", "f2")
  \/ Step(OpsProvider) /\ Inject("c", "&ResponseWriter{}")
  \/ Step(OpsProvider) /\ Mutate

SpecProvider == Init /\ [][NextProvider]_vars

(***************************************************************************)
(* Values registered under their own type: Foo by value, by pointer and as *)
(* a nil pointer, in a container that may be given a parent.               *)
(***************************************************************************)
\* operations per behaviour under SpecInstance
OpsInstance == 4

NextInstance ==
  \/ \E c \in Pair, v \in {"Foo{abc}", "&Foo{abc}", "(*Foo)(nil)"} :
       Step(OpsInstance) /\ Register(c, v)
  \/ \E t \in {FooT, PtrTo(FooT)} : Step(OpsInstance) /\ Unregister("c", t)
  \/ \E q \in {"p", NoParent} : Step(OpsInstance) /\ SetParentContainer("c", q)
  \/ \E t \in {FooT, PtrTo(FooT)} : Step(OpsInstance) /\ Make("c", t)
  \/ Step(OpsInstance) /\ Mutate

SpecInstance == Init /\ [][NextInstance]_vars

(***************************************************************************)
(* RegisterAs on one container: values and types registered as the         *)
(* interfaces Bar and Writer and as string, convertible or not.            *)
(***************************************************************************)
\* operations per behaviour under SpecAlias
OpsAlias == 3

NextAlias ==
  \/ \E v \in AsArgs, t \in AsTypes : Step(OpsAlias) /\ RegisterAs("c", v, t)
  \/ Step(OpsAlias) /\ Register("c", "&Foo{abc}")
  \/ \E t \in {BarT, WriterT} : Step(OpsAlias) /\ Unregister("c", t)
  \/ \E t \in {BarT, WriterT, StringT, PtrTo(FooT), PtrTo(ResponseWriterT)} :
       Step(OpsAlias) /\ Make("c", t)
  \/ Step(OpsAlias) /\ Mutate

SpecAlias == Init /\ [][NextAlias]_vars

(***************************************************************************)
(* Parent and child (TestParent): values registered on either container,   *)
(* the child's parent set to p and to nil, Make on both.                   *)
(***************************************************************************)
\* operations per behaviour under SpecParent
OpsParent == 4

ParentValues == {"&Foo{abc}", "Foo{abc}", "100"}

ParentTypes == {PtrTo(FooT), FooT, IntT}

NextParent ==
  \/ \E q \in {"p", NoParent} : Step(OpsParent) /\ SetParentContainer("c", q)
  \/ \E c \in Pair, v \in ParentValues : Step(OpsParent) /\ Register(c, v)
  \/ \E c \in Pair : Step(OpsParent) /\ Unregister(c, PtrTo(FooT))
  \/ \E c \in Pair, t \in ParentTypes : Step(OpsParent) /\ Make(c, t)
  \/ Step(OpsParent) /\ Mutate

SpecParent == Init /\ [][NextParent]_vars

(***************************************************************************)
(* Inject (TestInject, TestBuildInject): the registrations of the tests,   *)
(* a shared provider and a nil pointer to Writer on one container, Inject  *)
(* of structs, of pointers to structs, of a nil pointer and of a number.   *)
(***************************************************************************)
\* operations per behaviour under SpecInject
OpsInject == 3

InjectValues == {"&Context{abc}", "&Foo{abc}", "(*Writer)(nil)"}

InjectAs == {<<"TypeOf(&ResponseWriter{})", WriterT>>, <<"&ResponseWriter{t:1}", WriterT>>,
             <<"&Foo{123}", BarT>>}

InjectTargets == {"&Controller{}", "&Controller{set}", "Controller{}",
                  "(*Controller)(nil)", "&Tee{}", "&ResponseWriter{}", "ResponseWriter{}", "1",
                  "&Page{set}"}

NextInject ==
  \/ \E v \in InjectValues : Step(OpsInject) /\ Register("c", v)
  \/ \E a \in InjectAs : Step(OpsInject) /\ RegisterAs("c", a[1], a[2])
  \/ \E t \in {WriterT, PtrTo(WriterT)} : Step(OpsInject) /\ Unregister("c", t)
  \/ \E x \in InjectTargets : Step(OpsInject) /\ Inject("c", x)
  \/ Step(OpsInject) /\ RegisterProvider("c", "newPFoo", PtrTo(FooT), TRUE)

SpecInject == Init /\ [][NextInject]_vars

(***************************************************************************)
(* Call (TestCall): the registrations of the test, a nil pointer to Writer *)
(* and an integer registered as string, Call of two functions and of a     *)
(* value that is no function.                                              *)
(***************************************************************************)
\* operations per behaviour under SpecCall
OpsCall == 3

CallValues == {"&Context{abc}", "&Foo{abc}", "(*Writer)(nil)"}

CallAs == {<<"&ResponseWriter{t:1}", WriterT>>, <<"TypeOf(&ResponseWriter{})", WriterT>>,
           <<"&Foo{123}", BarT>>, <<"100", StringT>>}

NextCall ==
  \/ \E v \in CallValues : Step(OpsCall) /\ Register("c", v)
  \/ \E a \in CallAs : Step(OpsCall) /\ RegisterAs("c", a[1], a[2])
  \/ \E t \in {WriterT, StringT} : Step(OpsCall) /\ Unregister("c", t)
  \/ \E f \in Funcs : Step(OpsCall) /\ Call("c", f)

SpecCall == Init /\ [][NextCall]_vars

(***************************************************************************)
(* Make of types that are bound nowhere (TestBuildBasic, TestBuildComplex) *)
(* in a container that holds bindings for other types.                     *)
(***************************************************************************)
\* operations per behaviour under SpecDefaults
OpsDefaults == 3

DefaultValues == {"&Foo{abc}", "(*Writer)(nil)", "100"}

DefaultTypes == {IntT, StringT, BarT, FuncT, FooT, PtrTo(FooT), ResponseWriterT,
                 PtrTo(ResponseWriterT), ControllerT, SliceIntT, MapStringFooT, ChanFooT,
                 PtrTo(IntT), PtrTo(SliceIntT)}

NextDefaults ==
  \/ \E v \in DefaultValues : Step(OpsDefaults) /\ Register("c", v)
  \/ \E t \in {PtrTo(FooT), PtrTo(WriterT)} : Step(OpsDefaults) /\ Unregister("c", t)
  \/ \E t \in DefaultTypes : Step(OpsDefaults) /\ Make("c", t)

SpecDefaults == Init /\ [][NextDefaults]_vars

(***************************************************************************)
(* Registrations that follow one another for the same type: *Foo and Bar   *)
(* bound by Register, by RegisterAs of a value and of a type, and by a     *)
(* provider, shared or not, and resolved in between.                       *)
(***************************************************************************)
\* operations per behaviour under SpecRebind
OpsRebind == 4

RebindAs == {<<"&Foo{123}", BarT>>, <<"&Foo{123}", PtrTo(FooT)>>, <<"TypeOf(&Foo{})", BarT>>}

NextRebind ==
  \/ \E t \in ProviderTypes, shared \in BOOLEAN :
       Step(OpsRebind) /\ RegisterProvider("c", "newPFoo", t, shared)
  \/ Step(OpsRebind) /\ Register("c", "&Foo{abc}")
  \/ \E a \in RebindAs : Step(OpsRebind) /\ RegisterAs("c", a[1], a[2])
  \/ \E t \in ProviderTypes : Step(OpsRebind) /\ Make("c", t)

SpecRebind == Init /\ [][NextRebind]_vars

(***************************************************************************)
(* HasRegistered (TestRegister, TestRegisterInterface,                     *)
(* TestRegisterProvider): every way to bind and unbind a type, on a        *)
(* container and its parent, with resolutions in between.                  *)
(***************************************************************************)
\* operations per behaviour under SpecRegistered
OpsRegistered == 4

RegisteredAs == {<<"&Foo{123}", BarT>>, <<"&Foo{123}", WriterT>>, <<"TypeOf(&Foo{})", BarT>>}

NextRegistered ==
  \/ \E c \in Pair : Step(OpsRegistered) /\ Register(c, "&Foo{abc}")
  \/ \E a \in RegisteredAs : Step(OpsRegistered) /\ RegisterAs("c", a[1], a[2])
  \/ \E shared \in BOOLEAN :
       Step(OpsRegistered) /\ RegisterProvider("c", "newPFoo", PtrTo(FooT), shared)
  \/ \E c \in Pair : Step(OpsRegistered) /\ Unregister(c, PtrTo(FooT))
  \/ \E q \in {"p", NoParent} : Step(OpsRegistered) /\ SetParentContainer("c", q)
  \/ \E t \in ProviderTypes : Step(OpsRegistered) /\ Make("c", t)

SpecRegistered == Init /\ [][NextRegistered]_vars

(***************************************************************************)
(* Delegation to the parent: the child binds the pointer to a type, the    *)
(* target of an alias of the parent and the type of a field; the parent    *)
(* binds an alias, a value and providers; Make on the child.               *)
(***************************************************************************)
\* operations per behaviour under SpecDelegate
OpsDelegate == 4

DelegateTypes == {FooT, PtrTo(FooT), WriterT, PtrTo(ResponseWriterT)}

NextDelegate ==
  \/ \E q \in {"p", NoParent} : Step(OpsDelegate) /\ SetParentContainer("c", q)
  \/ \E c \in Pair : Step(OpsDelegate) /\ Register(c, "&Foo{abc}")
  \/ Step(OpsDelegate) /\ Register("c", "&ResponseWriter{t:1}")
  \/ Step(OpsDelegate) /\ RegisterAs("p", "TypeOf(&ResponseWriter{})", WriterT)
  \/ \E shared \in BOOLEAN :
       Step(OpsDelegate) /\ RegisterProvider("p", "newPFoo", PtrTo(FooT), shared)
  \/ \E t \in DelegateTypes : Step(OpsDelegate) /\ Make("c", t)

SpecDelegate == Init /\ [][NextDelegate]_vars

(***************************************************************************)
(* Precedence of the nearest binding: a child, its parent and the parent   *)
(* of its parent bind the same pointer type by values and by providers;    *)
(* Make on the child.                                                      *)
(***************************************************************************)
\* operations per behaviour under SpecPrecedence
OpsPrecedence == 6

NextPrecedence ==
  \/ Step(OpsPrecedence) /\ SetParentContainer("c", "p")
  \/ Step(OpsPrecedence) /\ SetParentContainer("p", "g")
  \/ \E d \in Containers : Step(OpsPrecedence) /\ Register(d, "&Foo{abc}")
  \/ \E d \in {"p", "g"} :
       Step(OpsPrecedence) /\ RegisterProvider(d, "newPFoo", PtrTo(FooT), TRUE)
  \/ Step(OpsPrecedence) /\ RegisterProvider("p", "newPFoo", PtrTo(FooT), FALSE)
  \/ Step(OpsPrecedence) /\ Make("c", PtrTo(FooT))

SpecPrecedence == Init /\ [][NextPrecedence]_vars

(***************************************************************************)
(* Aliases and what they point at: interfaces are bound to pointer types   *)
(* which are bound to a value or a provider, bound in the parent only, or  *)
(* not bound at all; Make of the interfaces and of the pointer type.       *)
(***************************************************************************)
\* operations per behaviour under SpecForward
OpsForward == 4

ForwardTypes == {BarT, WriterT, PtrTo(FooT)}

NextForward ==
  \/ Step(OpsForward) /\ RegisterAs("c", "TypeOf(&Foo{})", BarT)
  \/ Step(OpsForward) /\ RegisterAs("c", "TypeOf(&ResponseWriter{})", WriterT)
  \/ \E d \in Pair : Step(OpsForward) /\ Register(d, "&Foo{abc}")
  \/ \E shared \in BOOLEAN :
       Step(OpsForward) /\ RegisterProvider("c", "newPFoo", PtrTo(FooT), shared)
  \/ Step(OpsForward) /\ SetParentContainer("c", "p")
  \/ \E t \in ForwardTypes : Step(OpsForward) /\ Make("c", t)

SpecForward == Init /\ [][NextForward]_vars

(***************************************************************************)
(* What resolution writes: *Foo is bound by shared and non-shared          *)
(* providers in a child and its parent, by a value, or not at all, and Bar *)
(* is an alias of it; Make, Call and Inject on the child.                  *)
(***************************************************************************)
\* operations per behaviour under SpecResolve
OpsResolve == 4

ResolveTypes == {PtrTo(FooT), BarT}

NextResolve ==
  \/ \E d \in Pair, shared \in BOOLEAN :
       Step(OpsResolve) /\ RegisterProvider(d, "newPFoo", PtrTo(FooT), shared)
  \/ Step(OpsResolve) /\ Register("c", "&Foo{abc}")
  \/ Step(OpsResolve) /\ RegisterAs("c", "TypeOf(&Foo{})", BarT)
  \/ Step(OpsResolve) /\ SetParentContainer("c", "p")
  \/ \E t \in ResolveTypes : Step(OpsResolve) /\ Make("c", t)
  \/ Step(OpsResolve) /\ Call("c", "f2")
  \/ Step(OpsResolve) /\ Inject("c", "&ResponseWriter{}")

SpecResolve == Init /\ [][NextResolve]_vars

(***************************************************************************)
(* Cycles: the interfaces Bar and Tester are bound as aliases of one       *)
(* another or of *Foo, and the struct Node, whose field is a *Node, is     *)
(* made with and without a registered *Node; Make, Call and Inject.        *)
(***************************************************************************)
\* operations per behaviour under SpecCycle
OpsCycle == 4

CycleAs == {<<"InterfaceOf((*Tester)(nil))", BarT>>, <<"InterfaceOf((*Bar)(nil))", TesterT>>,
            <<"TypeOf(&Foo{})", TesterT>>}

CycleTypes == {BarT, TesterT, NodeT, PtrTo(NodeT)}

NextCycle ==
  \/ \E a \in CycleAs : Step(OpsCycle) /\ RegisterAs("c", a[1], a[2])
  \/ Step(OpsCycle) /\ Register("c", "&Node{}")
  \/ Step(OpsCycle) /\ Unregister("c", PtrTo(NodeT))
  \/ \E t \in CycleTypes : Step(OpsCycle) /\ Make("c", t)
  \/ Step(OpsCycle) /\ Call("c", "f2")
  \/ Step(OpsCycle) /\ Inject("c", "&Node{}")

SpecCycle == Init /\ [][NextCycle]_vars

(***************************************************************************)
(* Two children of one parent: the parent binds *Foo by a provider, the    *)
(* children c and g bind nothing or, c, a value; Make on all three.        *)
(***************************************************************************)
\* operations per behaviour under SpecSiblings
OpsSiblings == 5

NextSiblings ==
  \/ \E shared \in BOOLEAN :
       Step(OpsSiblings) /\ RegisterProvider("p", "newPFoo", PtrTo(FooT), shared)
  \/ \E d \in {"c", "g"} : Step(OpsSiblings) /\ SetParentContainer(d, "p")
  \/ Step(OpsSiblings) /\ Register("c", "&Foo{abc}")
  \/ \E d \in Containers : Step(OpsSiblings) /\ Make(d, PtrTo(FooT))

SpecSiblings == Init /\ [][NextSiblings]_vars

(***************************************************************************)
(* The container a provider is called with: Writer is bound to a provider  *)
(* that asks the container it is given for a *Foo; child and parent bind   *)
(* *Foo to values of their own; Make of Writer on both.                    *)
(***************************************************************************)
\* operations per behaviour under SpecHandle
OpsHandle == 5

NextHandle ==
  \/ \E shared \in BOOLEAN :
       Step(OpsHandle) /\ RegisterProvider("p", "newWriter", WriterT, shared)
  \/ Step(OpsHandle) /\ RegisterProvider("c", "newWriter", WriterT, FALSE)
  \/ \E d \in Pair : Step(OpsHandle) /\ Register(d, "&Foo{abc}")
  \/ Step(OpsHandle) /\ SetParentContainer("c", "p")
  \/ \E d \in Pair : Step(OpsHandle) /\ Make(d, WriterT)

SpecHandle == Init /\ [][NextHandle]_vars

(***************************************************************************)
(* Properties.                                                             *)
(***************************************************************************)
\* how many build calls of the log were served by the binding of t in c
Hits(log, c, t) ==
  Cardinality({i \in 1..Len(log) :
                 log[i].c = c /\ log[i].t = t /\ log[i].via \in {"provider", "instance"}})

\* the value a function parameter or a struct field holds: the dynamic value
\* of an interface, the value itself otherwise
Passed(v) ==
  IF Kind(v.t) = "interface"
  THEN IF v.dyn = << >> THEN NilInterface ELSE v.dyn[1]
  ELSE v

\* the last operation resolved types (it was Make, Call or Inject)
Resolving(l) == l.op \in {"Make", "Call", "Inject"}

\* C1: a shared provider that is still the registration of its type has been
\* invoked at most once; before its first resolution the binding is the
\* provider, from then on it is the instance the one invocation produced; an
\* operation that resolved the type leaves it invoked exactly once, and Make,
\* a Call parameter and an injected field all get that one value (the same
\* pointer, so what was written through an earlier result is seen)
C1_SharedProviderOnce ==
  \A id \in 1..Len(provs) :
    LET pr == provs[id]
    IN (pr.shared /\ pr.live) =>
         /\ pr.calls <= 1
         /\ pr.t \in DOMAIN vals[pr.c]
         /\ pr.calls = 0 => vals[pr.c][pr.t] = ProviderBinding(id, TRUE)
         /\ pr.calls = 1 => vals[pr.c][pr.t] = Instance(pr.out)
         /\ (Resolving(last) /\ Hits(last.log, pr.c, pr.t) > 0) => pr.calls = 1
         /\ (last.op = "Make" /\ last.c = pr.c /\ last.t = pr.t) =>
              last.status = "ok" /\ last.res = pr.out
         /\ (last.op = "Call" /\ last.c = pr.c /\ last.invoked = 1) =>
              \A i \in 1..Len(In(last.in)) :
                In(last.in)[i] = pr.t => Passed(last.args[i]) = pr.out
         /\ (last.op = "Inject" /\ last.c = pr.c /\ last.status = "ok"
               /\ last.res.t = PtrTo(ResponseWriterT)) =>
              (pr.t = PtrTo(FooT) => heap[last.res.p].f[1] = pr.out)

\* C1 witness: a shared provider of *Foo, invoked once, whose value Make has
\* just returned again after the caller wrote through an earlier result
C1_Witness ==
  \E id \in 1..Len(provs) :
    /\ provs[id].shared /\ provs[id].live /\ provs[id].calls = 1
    /\ last.op = "Make" /\ last.c = provs[id].c /\ last.t = provs[id].t
    /\ last.res.t = PtrTo(FooT) /\ last.res.p # 0
    /\ heap[last.res.p] = FooV("test")

\* C2: a non-shared provider that is still the registration of its type stays
\* the binding of its type; every operation invokes it once for each
\* resolution of the type it performs; Make returns the value of that
\* invocation, for the provider of &Foo{"abc"} a pointer to a new Foo holding
\* "abc" whatever was done to earlier results
C2_NonSharedEveryTime ==
  [][\A id \in 1..Len(provs) :
       LET pr == provs[id]
       IN (~pr.shared /\ pr.live /\ provs'[id].live) =>
            /\ pr.t \in DOMAIN vals'[pr.c]
            /\ vals'[pr.c][pr.t] = ProviderBinding(id, FALSE)
            /\ provs'[id].calls =
                 pr.calls + (IF Resolving(last') THEN Hits(last'.log, pr.c, pr.t) ELSE 0)
            /\ (last'.op = "Make" /\ last'.c = pr.c /\ last'.t = pr.t) =>
                 /\ last'.status = "ok"
                 /\ last'.res = provs'[id].out
                 /\ pr.fn = "newPFoo" =>
                      /\ last'.res.p > Len(heap)
                      /\ heap'[last'.res.p] = FooV("abc")]_vars

\* C2 witness: a non-shared provider invoked twice, the second result a new
\* Foo holding "abc" while the first, written through, holds "test"
C2_Witness ==
  \E id \in 1..Len(provs) :
    /\ ~provs[id].shared /\ provs[id].live /\ provs[id].calls = 2
    /\ last.op = "Make" /\ last.c = provs[id].c /\ last.t = provs[id].t
    /\ last.res.p # 0 /\ heap[last.res.p] = FooV("abc")
    /\ \E a \in 1..Len(heap) : a # last.res.p /\ heap[a] = FooV("test")


RECURSIVE Rooted(_, _)
\* the parent chain of c ends within n links
Rooted(c, n) == c = NoParent \/ (n > 0 /\ Rooted(parent[c], n - 1))

\* no container is its own ancestor
AcyclicParents == \A c \in Containers : Rooted(c, Cardinality(Containers))

RECURSIVE Unaliased(_, _, _)
\* the alias chain of t in c ends within n links
Unaliased(c, t, n) ==
  \/ t \notin DOMAIN vals[c]
  \/ vals[c][t].k # "alias"
  \/ n > 0 /\ Unaliased(c, vals[c][t].a, n - 1)

\* no type is its own alias, directly or through other aliases
AcyclicAliases ==
  \A c \in Containers : \A t \in DOMAIN vals[c] : Unaliased(c, t, Cardinality(DOMAIN vals[c]))

\* C3: Make raises no error: with no provider registered, no container its
\* own ancestor and no alias cycle, the last Make returned, and returned a
\* value of the type asked for (the struct types asked for under Spec have no
\* field that leads back to its struct)
C3_Totality ==
  (last.op = "Make" /\ provs = << >> /\ AcyclicParents /\ AcyclicAliases)
    => /\ last.status = "ok"
       /\ \/ AssignableTo(last.res.t, last.t)
          \/ Kind(last.t) = "interface" /\ last.res = NilInterface

\* C4: Register(v) binds the type of v to v; Make of a type bound to an
\* instance returns that instance: an equal copy of a struct, the same
\* pointer for a pointer, with the pointee as the caller left it; and neither
\* Make nor what the caller does with a result changes the binding
C4_InstanceFidelity ==
  [][/\ last'.op = "Register" =>
          /\ last'.res.t \in DOMAIN vals'[last'.c]
          /\ vals'[last'.c][last'.res.t] = Instance(last'.res)
     /\ \A c \in Containers : \A t \in DOMAIN vals[c] :
          vals[c][t].k = "instance" =>
            /\ last'.op \in {"Make", "Mutate"} =>
                 t \in DOMAIN vals'[c] /\ vals'[c][t] = vals[c][t]
            /\ (last'.op = "Make" /\ last'.c = c /\ last'.t = t) =>
                 /\ last'.status = "ok"
                 /\ last'.res = vals[c][t].v
                 /\ last'.res.p # 0 => heap'[last'.res.p] = heap[last'.res.p]]_vars

\* C4 witness: Make has returned the registered pointer again after the
\* caller wrote "test" through it
C4_Witness ==
  /\ last.op = "Make" /\ last.c = "c" /\ last.t = PtrTo(FooT) /\ last.status = "ok"
  /\ PtrTo(FooT) \in DOMAIN vals["c"]
  /\ vals["c"][PtrTo(FooT)] = Instance(last.res)
  /\ last.res.p # 0
  /\ heap[last.res.p] = FooV("test")

\* C7: in a container without a parent, with the pointer to S bound to a
\* pointer and S not bound, Make(S) returns what that pointer points to, as it
\* is now; with S bound to a value and no pointer to S bound, Make of the
\* pointer to S returns the nil pointer
C7_PointerValueAsymmetry ==
  \A c \in Containers : \A S \in {FooT} :
    (parent[c] = NoParent /\ last.op = "Make" /\ last.c = c) =>
      /\ (last.t = S /\ S \notin DOMAIN vals[c] /\ PtrTo(S) \in DOMAIN vals[c]
            /\ vals[c][PtrTo(S)].k = "instance") =>
           /\ last.status = "ok"
           /\ vals[c][PtrTo(S)].v.p # 0
           /\ last.res = heap[vals[c][PtrTo(S)].v.p]
      /\ (last.t = PtrTo(S) /\ S \in DOMAIN vals[c] /\ vals[c][S].k = "instance"
            /\ PtrTo(S) \notin DOMAIN vals[c] /\ PtrTo(PtrTo(S)) \notin DOMAIN vals[c]) =>
           /\ last.status = "ok"
           /\ last.res = PtrV(PtrTo(S), 0)


\* the program state after the step
Then == [vals |-> vals', parent |-> parent', heap |-> heap', provs |-> provs', log |-> << >>]

\* what a caller gets from the method of interface t on the outcome r of a
\* resolution: Bar's test returns the field a of the *Foo (a nil *Foo cannot
\* be read), Writer's Write returns its argument
Behaviour(r, t) ==
  IF r.status # "ok" THEN "raises"
  ELSE CASE t = BarT /\ r.v.t = PtrTo(FooT) ->
              IF r.v.p = 0 THEN "raises" ELSE r.st.heap[r.v.p].f[1].s
         [] t = WriterT /\ r.v.t = PtrTo(ResponseWriterT) -> "test"
         [] OTHER -> "no method"

\* a value was just registered as an interface type
AsInterface(l) ==
  l.op = "RegisterAs" /\ l.status = "ok" /\ ~IsType(l.in) /\ Kind(l.t) = "interface"

\* C5, as claimed: after RegisterAs(v, T), T an interface, what resolving T
\* gives behaves as what resolving the type of v gives
C5_AliasEquivalent ==
  AsInterface(last) =>
    Behaviour(make(Now, last.c, last.t), last.t)
      = Behaviour(make(Now, last.c, last.res.t), last.t)

\* C5, amended: after RegisterAs(v, T), T an interface, T is bound to v and
\* resolving T gives v itself, the same pointer, of the type of v; the type
\* of v is bound or not as it was before
C5_AliasIsValue ==
  [][AsInterface(last') =>
       /\ last'.t \in DOMAIN vals'[last'.c]
       /\ vals'[last'.c][last'.t] = Instance(last'.res)
       /\ make(Then, last'.c, last'.t).status = "ok"
       /\ make(Then, last'.c, last'.t).v = last'.res
       /\ AssignableTo(last'.res.t, last'.t)
       /\ (last'.res.t \in DOMAIN vals'[last'.c]) = (last'.res.t \in DOMAIN vals[last'.c])]_vars

\* C5 witness: &Foo{"123"} registered as Bar, *Foo not bound
C5_Witness ==
  /\ AsInterface(last) /\ last.in = "&Foo{123}" /\ last.t = BarT
  /\ PtrTo(FooT) \notin DOMAIN vals[last.c]
  /\ make(Now, last.c, BarT).v = last.res

\* the type of the value or type passed to RegisterAs by name
ArgType(name) == IF IsType(name) THEN TypeArg(name) ELSE Arg(Now, name).v.t

\* C9: RegisterAs of a value or type not convertible to the type raises and
\* leaves every binding of every container and every parent link as it was
C9_IncompatibleRejected ==
  [][(last'.op = "RegisterAs" /\ ~ConvertibleTo(ArgType(last'.in), last'.t)) =>
       /\ last'.status = "panic"
       /\ vals' = vals
       /\ parent' = parent
       /\ (last'.t \in DOMAIN vals'[last'.c]) = HasRegistered(last'.c, last'.t)]_vars

\* C9 witness: RegisterAs(&Foo, Writer) has raised and Writer is not registered
C9_Witness ==
  /\ last.op = "RegisterAs" /\ last.status = "panic"
  /\ last.in = "&Foo{123}" /\ last.t = WriterT
  /\ ~HasRegistered(last.c, WriterT)


\* c has a parent, no binding for t, and the parent binds t to an instance
ParentHolds(c, t) ==
  /\ parent[c] # NoParent
  /\ t \notin DOMAIN vals[c]
  /\ t \in DOMAIN vals[parent[c]]
  /\ vals[parent[c]][t].k = "instance"

\* the branches of build that make a value from the type alone
Defaulting == {"ptr", "struct", "slice", "map", "chan", "zero"}

\* C6: Make(T) on a child without a binding for T whose parent binds T to an
\* instance returns the parent's value; and when SetParentContainer(nil)
\* removes that parent, T was resolved to the parent's value before it and
\* is resolved after it by the child alone, through the fallback of build: no
\* other container is asked, and unless the child binds the pointer to T the
\* result is made from the type and is not the parent's value
C6_HierarchicalFallback ==
  [][/\ (last'.op = "Make" /\ ParentHolds(last'.c, last'.t)) =>
          /\ last'.status = "ok"
          /\ last'.res = vals[parent[last'.c]][last'.t].v
          /\ Head(last'.log).via = "parent"
     /\ (last'.op = "SetParentContainer" /\ last'.in = NoParent) =>
          /\ parent'[last'.c] = NoParent
          /\ \A t \in ParentTypes : ParentHolds(last'.c, t) =>
               LET was == vals[parent[last'.c]][t].v
                   r == make(Then, last'.c, t)
               IN /\ make(Now, last'.c, t).v = was
                  /\ r.status = "ok"
                  /\ \A i \in 1..Len(r.st.log) : r.st.log[i].c = last'.c
                  /\ Head(r.st.log).via \in Defaulting \cup {"pointer"}
                  /\ PtrTo(t) \notin DOMAIN vals[last'.c] =>
                       /\ r.v # was
                       /\ Head(r.st.log).via \in Defaulting]_vars

\* C6 witness: the child's parent, which binds *Foo, has just been removed,
\* and Make(*Foo) on the child now makes a new Foo and not the parent's
C6_Witness ==
  /\ last.op = "SetParentContainer" /\ last.in = NoParent /\ last.c = "c"
  /\ parent["c"] = NoParent
  /\ PtrTo(FooT) \notin DOMAIN vals["c"]
  /\ PtrTo(FooT) \in DOMAIN vals["p"]
  /\ vals["p"][PtrTo(FooT)].k = "instance"
  /\ LET r == make(Now, "c", PtrTo(FooT))
     IN /\ r.status = "ok"
        /\ r.v.p > Len(heap)
        /\ r.v # vals["p"][PtrTo(FooT)].v


\* f.CanSet() && tf.Tag.Get("inject") != "" for a field of an addressable struct
Eligible(tf) == tf.exported /\ tf.tag # ""

\* the type t is bound to an instance in c
BoundInstance(c, t) == t \in DOMAIN vals[c] /\ vals[c][t].k = "instance"

\* nothing but the making of a value from the type t alone applies in c
Unbound(c, t) ==
  t \notin DOMAIN vals[c] /\ PtrTo(t) \notin DOMAIN vals[c] /\ parent[c] = NoParent

\* C8: Inject of a pointer to a struct returns; each exported field with a
\* non-empty inject tag, embedded or not, then holds the resolution of its
\* type (the bound instance when the type is bound to one), and every other
\* field holds what it held before
C8_InjectionSelectivity ==
  (last.op = "Inject" /\ KindOf(last.res) = "ptr" /\ last.res.p # 0
     /\ Kind(Elem(last.res.t)) = "struct") =>
    LET s == heap[last.res.p]
    IN /\ last.status = "ok"
       /\ \A i \in 1..Len(Fields(s.t)) :
            LET tf == Fields(s.t)[i]
            IN IF Eligible(tf)
               THEN /\ \E k \in 1..Len(last.log) :
                         last.log[k].c = last.c /\ last.log[k].t = tf.type
                    /\ BoundInstance(last.c, tf.type) =>
                         s.f[i] = Assigned(Now, vals[last.c][tf.type].v, tf.type)
               ELSE s.f[i] = last.pre.f[i]

\* C10: Call of a function resolves one value for each parameter, in order,
\* as Make does (the bound instance for a type bound to one, the zero value
\* for a type nothing is known of), invokes the function once with them and
\* returns what it returns; Call of a value that is no function raises and
\* invokes nothing
C10_CallResolvesAndInvokes ==
  last.op = "Call" =>
    IF IsFunc(last.in)
    THEN LET ts == In(last.in)
         IN /\ last.invoked = 1
            /\ Len(last.args) = Len(ts)
            /\ \A i \in 1..Len(ts) :
                 /\ BoundInstance(last.c, ts[i]) =>
                      last.args[i] = Assigned(Now, vals[last.c][ts[i]].v, ts[i])
                 /\ (Unbound(last.c, ts[i]) /\ Kind(ts[i]) \in {"interface", "string"}) =>
                      last.args[i] = Zero(ts[i])
            /\ Apply(Now, last.in, last.args).status = "ok" =>
                 /\ last.status = "ok"
                 /\ last.outs = Apply(Now, last.in, last.args).v
    ELSE last.status = "panic" /\ last.invoked = 0

\* the fields of the struct s made by container c: each eligible field holds
\* the bound instance when its type is bound to one in c, and a new struct
\* or the zero value when nothing is known of its type; every other field
\* holds its zero value
Injected(s, c) ==
  \A i \in 1..Len(Fields(s.t)) :
    LET tf == Fields(s.t)[i]
    IN IF Eligible(tf)
       THEN /\ BoundInstance(c, tf.type) => s.f[i] = Assigned(Now, vals[c][tf.type].v, tf.type)
            /\ (Unbound(c, tf.type) /\ Kind(tf.type) \in {"interface", "string", "int"}) =>
                 s.f[i] = Zero(tf.type)
            /\ (Unbound(c, tf.type) /\ Kind(tf.type) = "ptr") => s.f[i].p # 0
       ELSE s.f[i] = Zero(tf.type)

\* C11: Make of a type that is not bound, in a container without a parent
\* that does not bind the pointer to it: a struct type gives a new struct
\* with its eligible fields injected; a pointer to such a struct type a
\* non-nil pointer to a new injected struct; a slice, map or channel type a
\* new, empty, non-nil one; a number, string, interface or function type its
\* zero value, nil for an interface
C11_StructuralDefaults ==
  (last.op = "Make" /\ Unbound(last.c, last.t)) =>
    /\ last.status = "ok"
    /\ Kind(last.t) # "interface" => last.res.t = last.t
    /\ CASE Kind(last.t) = "struct" ->
              /\ Head(last.log).via = "struct"
              /\ Injected(last.res, last.c)
         [] Kind(last.t) = "ptr" /\ Kind(Elem(last.t)) = "struct" /\ Unbound(last.c, Elem(last.t)) ->
              /\ last.res.p # 0
              /\ last.log[2].via = "struct"
              /\ heap[last.res.p].t = Elem(last.t)
              /\ Injected(heap[last.res.p], last.c)
         [] Kind(last.t) \in {"slice", "map", "chan"} ->
              /\ Head(last.log).via = Kind(last.t)
              /\ last.res.p = Len(heap)
              /\ heap[last.res.p] = Zero(last.t)
         [] Kind(last.t) \in {"int", "string", "func"} -> last.res = Zero(last.t)
         [] Kind(last.t) = "interface" -> last.res = NilInterface
         [] OTHER -> TRUE

\* some binding of some container is the provider closure id
Referenced(id) ==
  \E c \in Containers : \E t \in DOMAIN vals[c] :
    vals[c][t].k = "provider" /\ vals[c][t].id = id

\* the type the last registration bound
BoundType(l) == IF l.op = "Register" THEN l.res.t ELSE l.t

\* the last operation registered something
Registering(l) ==
  l.op \in {"Register", "RegisterAs", "RegisterProvider"} /\ l.status = "ok"

\* C12: a registration for a type leaves that type bound to what was
\* registered and nothing else, whatever it was bound to before (also the
\* cached value of a shared provider); a resolution of a type is served by
\* the binding the type has then; and a provider closure that no binding
\* holds any more is never invoked and never bound again
C12_LastWriteWins ==
  [][/\ Registering(last') =>
          LET c == last'.c
              t == BoundType(last')
          IN /\ t \in DOMAIN vals'[c]
             /\ CASE last'.op = "Register" -> vals'[c][t] = Instance(last'.res)
                  [] last'.op = "RegisterAs" /\ IsType(last'.in) ->
                       vals'[c][t] = Alias(TypeArg(last'.in))
                  [] last'.op = "RegisterAs" /\ ~IsType(last'.in) ->
                       vals'[c][t] = Instance(last'.res)
                  [] OTHER ->
                       /\ vals'[c][t].k = "provider"
                       /\ vals'[c][t].id = Len(provs')
                       /\ Len(provs') = Len(provs) + 1
                       /\ provs'[Len(provs')].calls = 0
                       /\ provs'[Len(provs')].fn = last'.in
             /\ \A id \in 1..Len(provs) :
                  (t \in DOMAIN vals[c] /\ vals[c][t].k = "provider" /\ vals[c][t].id = id)
                    => ~Referenced(id)'
     /\ (last'.op = "Make" /\ last'.t \in DOMAIN vals[last'.c]) =>
          LET b == vals[last'.c][last'.t]
          IN CASE b.k = "instance" -> last'.status = "ok" /\ last'.res = b.v
               [] b.k = "provider" ->
                    /\ last'.res = provs'[b.id].out
                    /\ provs'[b.id].calls = provs[b.id].calls + 1
                    /\ \A id \in 1..Len(provs) : id # b.id => provs'[id].calls = provs[id].calls
               [] OTHER -> last'.res = make(Now, last'.c, b.a).v
     /\ \A id \in 1..Len(provs) :
          ~Referenced(id) => /\ provs'[id].calls = provs[id].calls
                             /\ ~Referenced(id)']_vars

\* C12 witness: *Foo was bound to a shared provider, resolved and cached,
\* then Register bound it to another pointer, and Make now returns that one
C12_Witness ==
  /\ last.op = "Make" /\ last.t = PtrTo(FooT) /\ last.status = "ok"
  /\ PtrTo(FooT) \in DOMAIN vals[last.c]
  /\ vals[last.c][PtrTo(FooT)] = Instance(last.res)
  /\ \E id \in 1..Len(provs) :
       /\ provs[id].shared /\ provs[id].t = PtrTo(FooT) /\ provs[id].calls = 1
       /\ provs[id].out # last.res
       /\ ~Referenced(id)

\* the types HasRegistered is asked about: those the tests bind, the types
\* of the values bound as another type, and the type of a Provider
AskedTypes == {PtrTo(FooT), FooT, BarT, WriterT, FuncT}

\* HasRegistered answers for every container and type but (c, t) as before
OthersAsBefore(c, t) ==
  \A d \in Containers : \A u \in AskedTypes :
    <<d, u>> # <<c, t>> => HasRegistered(d, u)' = HasRegistered(d, u)

\* C13: HasRegistered(t) of a container is false at first, becomes true for
\* the type a Register, a successful RegisterAs or a RegisterProvider of
\* that container binds, and for no other type and no other container (not
\* for the type of the value or of the provider, not for the child of the
\* container); becomes false by Unregister only; and a resolution, also one
\* that caches a shared provider or is served by the parent, and a change
\* of the parent link leave every answer as it was
C13_HasRegisteredLocal ==
  [][/\ CASE Registering(last') ->
               \E d \in Containers, u \in AskedTypes :
                 /\ d = last'.c /\ u = BoundType(last')
                 /\ HasRegistered(d, u)'
                 /\ OthersAsBefore(d, u)
          [] last'.op = "Unregister" ->
               \E d \in Containers, u \in AskedTypes :
                 /\ d = last'.c /\ u = last'.t
                 /\ ~HasRegistered(d, u)'
                 /\ OthersAsBefore(d, u)
          [] OTHER -> OthersAsBefore(NoParent, << >>)
     /\ \A d \in Containers : \A u \in AskedTypes :
          /\ HasRegistered(d, u) = (u \in DOMAIN vals[d])
          /\ HasRegistered(d, u)' = (u \in DOMAIN vals'[d])]_vars

\* C13 witness: Make(*Foo) on the child was served by the parent's binding,
\* and HasRegistered(*Foo) is true on the parent and false on the child
C13_Witness ==
  /\ last.op = "Make" /\ last.c = "c" /\ last.t = PtrTo(FooT) /\ last.status = "ok"
  /\ parent["c"] = "p"
  /\ HasRegistered("p", PtrTo(FooT))
  /\ ~HasRegistered("c", PtrTo(FooT))
  /\ last.res = vals["p"][PtrTo(FooT)].v

\* C14: Unregister(t) raises nothing and removes the binding of t from its
\* container, if there is one, and nothing else: every other binding of the
\* container, every binding of every other container and every parent link
\* is as before; and t is then resolved on the container by its parent or
\* by the fallback of build, not by a binding of the container for t
C14_UnregisterLocal ==
  [][last'.op = "Unregister" =>
       \E c \in Containers :
         /\ c = last'.c
         /\ last'.status = "ok"
         /\ DOMAIN vals'[c] = DOMAIN vals[c] \ {last'.t}
         /\ \A u \in DOMAIN vals'[c] : vals'[c][u] = vals[c][u]
         /\ \A d \in Containers \ {c} : vals'[d] = vals[d]
         /\ parent' = parent
         /\ heap' = heap
         /\ last'.t \notin DOMAIN vals[c] => vals' = vals
         /\ Head(make(Then, c, last'.t).st.log).via
              \in IF parent[c] # NoParent THEN {"parent"} ELSE Defaulting \cup {"pointer"}]_vars

\* C14 witness: the child and its parent both bound *Foo, the child has
\* just unregistered it, and Make(*Foo) on the child gives the parent's
C14_Witness ==
  /\ last.op = "Unregister" /\ last.c = "c" /\ last.t = PtrTo(FooT)
  /\ nops = 4 /\ Len(heap) = 2 /\ heap[1] = FooV("abc") /\ heap[2] = FooV("abc")
  /\ parent["c"] = "p"
  /\ ~HasRegistered("c", PtrTo(FooT))
  /\ HasRegistered("p", PtrTo(FooT))
  /\ make(Now, "c", PtrTo(FooT)).v = vals["p"][PtrTo(FooT)].v

\* the last operation was Make of a type that is not bound in its container
\* while the pointer to the type is bound there to an instance
PointerOnly(l) ==
  /\ l.op = "Make"
  /\ l.t \notin DOMAIN vals[l.c]
  /\ BoundInstance(l.c, PtrTo(l.t))

\* C15, as claimed: in every state, Make of a type that is not bound in the
\* container while the pointer to it is bound there returns what the bound
\* pointer, if not nil, points to, and never a value made from the type
C15_PointerAlwaysWins ==
  PointerOnly(last) =>
    /\ vals[last.c][PtrTo(last.t)].v.p # 0 =>
         /\ last.status = "ok"
         /\ last.res = heap[vals[last.c][PtrTo(last.t)].v.p]
    /\ \A i \in 1..Len(last.log) : last.log[i].via \notin Defaulting

\* C15, amended: in a container without a parent, Make of a type that is
\* not bound there while the pointer to it is bound there dereferences the
\* bound pointer, returning what a non-nil pointer points to, and makes no
\* value from the type; in a container with a parent the parent is asked
\* first and the pointer bound in the child is not used
C15_PointerWinsWithoutParent ==
  PointerOnly(last) =>
    IF parent[last.c] = NoParent
    THEN /\ Head(last.log) = [c |-> last.c, t |-> last.t, via |-> "pointer"]
         /\ \A i \in 1..Len(last.log) : last.log[i].via \notin Defaulting
         /\ vals[last.c][PtrTo(last.t)].v.p # 0 =>
              /\ last.status = "ok"
              /\ last.res = heap[vals[last.c][PtrTo(last.t)].v.p]
    ELSE /\ Head(last.log) = [c |-> last.c, t |-> last.t, via |-> "parent"]
         /\ \A i \in 2..Len(last.log) : last.log[i].c # last.c
         /\ last.status = make(Now, parent[last.c], last.t).status
         /\ last.res = make(Now, parent[last.c], last.t).v

\* C15 witness: the child binds a pointer to a Foo{"abc"} and has a parent
\* that binds nothing; Make(Foo) on the child returned a new, zero Foo
C15_Witness ==
  /\ PointerOnly(last) /\ last.c = "c" /\ last.t = FooT /\ last.status = "ok"
  /\ parent["c"] = "p"
  /\ vals["p"] = EmptyMap
  /\ vals["c"][PtrTo(FooT)].v.p # 0
  /\ heap[vals["c"][PtrTo(FooT)].v.p] = FooV("abc")
  /\ last.res = Zero(FooT)

\* the value passed to Inject holds no struct that Inject can set: it is a
\* nil pointer, or no pointer at all (a number, a struct passed by value)
NotInjectable(v) == IF Kind(v.t) = "ptr" THEN v.p = 0 ELSE TRUE

\* C16: Inject of a nil pointer, of a number or of a struct passed by value
\* returns without raising; it resolves no type, so that no provider is
\* invoked and no shared provider cached, and it writes nothing: every
\* binding, every parent link and every value in memory is as before
C16_InjectNoOp ==
  [][(last'.op = "Inject" /\ NotInjectable(last'.res)) =>
       /\ last'.status = "ok"
       /\ last'.log = << >>
       /\ vals' = vals
       /\ parent' = parent
       /\ provs' = provs
       /\ heap' = heap]_vars

\* C16 witness: a ResponseWriter was passed to Inject by value while a
\* shared provider is registered for the type of its field Foo; the
\* provider has not been invoked and is still the binding
C16_Witness ==
  /\ last.op = "Inject" /\ last.in = "ResponseWriter{}" /\ last.status = "ok"
  /\ last.res = Zero(ResponseWriterT)
  /\ PtrTo(FooT) \in DOMAIN vals["c"]
  /\ vals["c"][PtrTo(FooT)].k = "provider"
  /\ Len(provs) = 1 /\ provs[1].calls = 0

\* C17: Make(T) on a container that has a parent and no binding for T ends
\* as Make(T) on the parent does, with the same value, the same effects on
\* memory, providers and the parent's bindings; after the first step no
\* build call is made on the child, whatever the child binds, and the
\* child's bindings are as before
C17_UpwardOnly ==
  [][(last'.op = "Make" /\ parent[last'.c] # NoParent
        /\ last'.t \notin DOMAIN vals[last'.c]) =>
       LET r == make(Now, parent[last'.c], last'.t)
       IN /\ last'.status = r.status
          /\ last'.res = r.v
          /\ heap' = r.st.heap
          /\ provs' = r.st.provs
          /\ vals' = r.st.vals
          /\ vals'[last'.c] = vals[last'.c]
          /\ Head(last'.log) = [c |-> last'.c, t |-> last'.t, via |-> "parent"]
          /\ Tail(last'.log) = r.st.log
          /\ \A i \in 2..Len(last'.log) : last'.log[i].c # last'.c]_vars

\* C17 witness: the parent binds Writer as an alias of *ResponseWriter, the
\* child binds *ResponseWriter to a value; Make(Writer) on the child
\* returned a new ResponseWriter made by the parent, not the child's
C17_Witness ==
  /\ last.op = "Make" /\ last.c = "c" /\ last.t = WriterT /\ last.status = "ok"
  /\ parent["c"] = "p"
  /\ WriterT \notin DOMAIN vals["c"]
  /\ BoundInstance("c", PtrTo(ResponseWriterT))
  /\ WriterT \in DOMAIN vals["p"]
  /\ vals["p"][WriterT] = Alias(PtrTo(ResponseWriterT))
  /\ last.res.p # 0
  /\ last.res # vals["c"][PtrTo(ResponseWriterT)].v

\* the first container from c up the chain of parents that binds t, if any
RECURSIVE Nearest(_, _, _)
Nearest(c, t, n) ==
  IF c = NoParent \/ n = 0 THEN NoParent
  ELSE IF t \in DOMAIN vals[c] THEN c
  ELSE Nearest(parent[c], t, n - 1)

\* C18: when several containers of the chain of parents bind the type asked
\* for, Make is served by the binding of the nearest one only: the log of
\* build calls climbs to that container and ends at its binding, an instance
\* is returned as it is held, a provider of that container is called once and
\* its output returned, and no other container's bindings change and no other
\* container's provider is called, so that the binding of an ancestor further
\* up is not resolved, its provider not invoked and its shared provider not
\* replaced by a value.
C18_LocalPrecedence ==
  [][(last'.op = "Make" /\ Nearest(last'.c, last'.t, Cardinality(Containers)) # NoParent) =>
       LET n == Nearest(last'.c, last'.t, Cardinality(Containers))
           b == vals[n][last'.t]
           log == last'.log
       IN /\ last'.status = "ok"
          /\ \A d \in Containers \ {n} : vals'[d] = vals[d]
          /\ Len(provs') = Len(provs)
          /\ \A j \in 1..Len(provs) : provs[j].c # n => provs'[j] = provs[j]
          /\ Len(log) >= 1
          /\ log[Len(log)].c = n /\ log[Len(log)].t = last'.t
          /\ log[Len(log)].via = b.k
          /\ \A i \in 1..(Len(log) - 1) :
               /\ log[i].via = "parent" /\ log[i].t = last'.t
               /\ log[i].c # n /\ parent[log[i].c] = log[i + 1].c
          /\ log[1].c = last'.c
          /\ b.k = "instance" =>
               /\ last'.res = b.v
               /\ vals' = vals /\ provs' = provs /\ heap' = heap
          /\ b.k = "provider" =>
               /\ provs'[b.id].calls = provs[b.id].calls + 1
               /\ last'.res = provs'[b.id].out
               /\ \A j \in 1..Len(provs) : j # b.id => provs'[j] = provs[j]
               /\ vals'[n] = IF b.shared THEN Put(vals[n], last'.t, Instance(last'.res))
                             ELSE vals[n]]_vars

\* the three containers of a chain bind the pointer type, the parent by a
\* shared provider that was never called and is still bound, and Make on the
\* child returned the child's own value
C18_Witness ==
  /\ last.op = "Make" /\ last.c = "c" /\ last.t = PtrTo(FooT) /\ last.status = "ok"
  /\ parent["c"] = "p" /\ parent["p"] = "g"
  /\ BoundInstance("c", PtrTo(FooT))
  /\ PtrTo(FooT) \in DOMAIN vals["p"] /\ vals["p"][PtrTo(FooT)].k = "provider"
  /\ vals["p"][PtrTo(FooT)].shared
  /\ provs[vals["p"][PtrTo(FooT)].id].calls = 0
  /\ PtrTo(FooT) \in DOMAIN vals["g"]
  /\ last.res = vals["c"][PtrTo(FooT)].v

\* C19: Make of a type bound as an alias of the type U ends as Make of U on
\* the same container in the same state ends, with the same value, heap,
\* provider calls and bindings, whether U is bound in the container, in its
\* parent or nowhere; its log of build calls is the alias entry followed by
\* the log of the Make of U; the type is bound as the alias of U afterwards,
\* and a shared provider bound to U has become a value under U.
C19_AliasForwards ==
  [][(/\ last'.op = "Make"
      /\ last'.t \in DOMAIN vals[last'.c]
      /\ vals[last'.c][last'.t].k = "alias") =>
       LET U == vals[last'.c][last'.t].a
           r == make(Now, last'.c, U)
       IN /\ last'.status = r.status /\ last'.res = r.v
          /\ heap' = r.st.heap /\ provs' = r.st.provs /\ vals' = r.st.vals
          /\ parent' = parent
          /\ Head(last'.log) = [c |-> last'.c, t |-> last'.t, via |-> "alias"]
          /\ Tail(last'.log) = r.st.log
          /\ vals'[last'.c][last'.t] = Alias(U)
          /\ (/\ U \in DOMAIN vals[last'.c]
              /\ vals[last'.c][U].k = "provider"
              /\ vals[last'.c][U].shared) =>
               vals'[last'.c][U] = Instance(last'.res)]_vars

\* Make of the interface Bar, an alias of *Foo, returned the value a shared
\* provider had just made, which is now bound to *Foo while Bar is the alias
C19_Witness ==
  /\ last.op = "Make" /\ last.c = "c" /\ last.t = BarT /\ last.status = "ok"
  /\ BarT \in DOMAIN vals["c"] /\ vals["c"][BarT] = Alias(PtrTo(FooT))
  /\ BoundInstance("c", PtrTo(FooT))
  /\ vals["c"][PtrTo(FooT)].v = last.res
  /\ \E i \in 1..Len(provs) :
       /\ provs[i].c = "c" /\ provs[i].t = PtrTo(FooT) /\ provs[i].shared
       /\ provs[i].calls = 1 /\ provs[i].out = last.res
  /\ Len(last.log) = 2 /\ last.log[2].via = "provider"

\* the binding b of a shared provider never called becomes, with the step, the
\* instance of what the one call of that provider produced
Kept(b, after) ==
  /\ b.k = "provider" /\ b.shared
  /\ provs[b.id].calls = 0 /\ provs'[b.id].calls = 1
  /\ after = Instance(provs'[b.id].out)

\* C20: Make, Call and Inject, however they end, leave every parent link and
\* the set of bound types of every container as they were, so HasRegistered
\* answers as before; every binding is as it was, except that a shared
\* provider never called before may have become the instance of the value its
\* one call produced; no closure is added, and a shared closure has been
\* called at most once.
C20_OnlySharedTransition ==
  [][Resolving(last') =>
       /\ parent' = parent
       /\ Len(provs') = Len(provs)
       /\ \A id \in 1..Len(provs) :
            /\ provs'[id].fn = provs[id].fn /\ provs'[id].c = provs[id].c
            /\ provs'[id].t = provs[id].t /\ provs'[id].shared = provs[id].shared
            /\ provs'[id].live = provs[id].live
            /\ provs'[id].shared => provs'[id].calls <= 1
       /\ \A d \in Containers :
            /\ DOMAIN vals'[d] = DOMAIN vals[d]
            /\ \A t \in Types : HasRegistered(d, t)' = HasRegistered(d, t)
            /\ \A t \in DOMAIN vals[d] :
                 \/ vals'[d][t] = vals[d][t]
                 \/ Kept(vals[d][t], vals'[d][t])]_vars

\* a Call on the child whose parameters are *Foo and its alias Bar made the
\* shared provider of the parent run, once, and the parent now holds the
\* value; the alias of the child is as it was
C20_Witness ==
  /\ last.op = "Call" /\ last.c = "c" /\ last.in = "f2" /\ last.status = "ok"
  /\ parent["c"] = "p"
  /\ DOMAIN vals["c"] = {BarT} /\ vals["c"][BarT] = Alias(PtrTo(FooT))
  /\ BoundInstance("p", PtrTo(FooT))
  /\ \E i \in 1..Len(provs) :
       /\ provs[i].c = "p" /\ provs[i].shared /\ provs[i].calls = 1
       /\ vals["p"][PtrTo(FooT)].v = provs[i].out
  /\ \E i \in 1..Len(last.log) : last.log[i].c = "p" /\ last.log[i].via = "provider"

\* C21: Inject of a pointer to a struct returns; an eligible field holds the
\* resolution of its type whatever it held before: the bound instance when
\* its type is bound to one, and, when it is of a struct type nothing is
\* known of, a struct made and injected anew, in which nothing is left of
\* what the field held; a field that is not eligible holds what it held
\* before, the tagged fields within it included, and when no field of the
\* struct is eligible nothing is resolved at all
C21_NoTraversal ==
  (last.op = "Inject" /\ KindOf(last.res) = "ptr" /\ last.res.p # 0
     /\ Kind(Elem(last.res.t)) = "struct") =>
    LET s == heap[last.res.p]
    IN /\ last.status = "ok"
       /\ \A i \in 1..Len(Fields(s.t)) :
            LET tf == Fields(s.t)[i]
            IN IF Eligible(tf)
               THEN /\ BoundInstance(last.c, tf.type) =>
                         s.f[i] = Assigned(Now, vals[last.c][tf.type].v, tf.type)
                    /\ (Kind(tf.type) = "struct" /\ Unbound(last.c, tf.type)) =>
                         /\ s.f[i].t = tf.type
                         /\ Injected(s.f[i], last.c)
               ELSE s.f[i] = last.pre.f[i]
       /\ (\A i \in 1..Len(Fields(s.t)) : ~Eligible(Fields(s.t)[i])) => last.log = << >>

\* the aliases of t in c lead back to an alias already followed
AliasCycle(c, t) == ~Unaliased(c, t, Cardinality(DOMAIN vals[c]))

\* t is the struct Node or the pointer to it, and c, which has no parent,
\* binds neither of them nor a pointer to them: each is built from the other
StructCycle(c, t) ==
  /\ t \in {NodeT, PtrTo(NodeT)}
  /\ Unbound(c, NodeT) /\ Unbound(c, PtrTo(NodeT))

\* the types the operation l asks build for itself
Asked(l) ==
  CASE l.op = "Make" -> {l.t}
    [] l.op = "Call" -> {In(l.in)[i] : i \in 1..Len(In(l.in))}
    [] l.op = "Inject" ->
         IF Kind(l.t) = "ptr" /\ Kind(Elem(l.t)) = "struct" /\ l.res.p # 0
         THEN {Fields(Elem(l.t))[i].type :
                 i \in {j \in 1..Len(Fields(Elem(l.t))) : Eligible(Fields(Elem(l.t))[j])}}
         ELSE {}
    [] OTHER -> {}

\* C22: RegisterAs of a type that converts to the type it is bound to is
\* accepted, also when it closes a cycle of aliases; Make, Call and Inject do
\* not return, and raise no error, exactly when a type they ask for lies on
\* a cycle of aliases or is the struct Node or *Node with nothing registered
\* that ends the chain: the nested build calls then go on to any depth,
\* each one the same as the call two levels above it, and no binding changes
C22_UnguardedRecursion ==
  [][/\ (last'.op = "RegisterAs" /\ IsType(last'.in)
           /\ ConvertibleTo(TypeArg(last'.in), last'.t)) =>
          /\ last'.status = "ok"
          /\ vals'[last'.c][last'.t] = Alias(TypeArg(last'.in))
     /\ Resolving(last') =>
          IF \E t \in Asked(last') : AliasCycle(last'.c, t) \/ StructCycle(last'.c, t)
          THEN /\ last'.status = "diverge"
               /\ vals' = vals /\ parent' = parent
               /\ \E k \in 1..Len(last'.log) :
                    \A i \in k..(Len(last'.log) - 2) :
                      /\ last'.log[i + 2] = last'.log[i]
                      /\ last'.log[i].via \in {"alias", "struct", "ptr"}
               /\ Len(last'.log) >= MaxDepth - 1
          ELSE last'.status # "diverge"]_vars

\* Bar and Tester are aliases of one another, both registrations were
\* accepted, and Make of Bar did not return
C22_Witness ==
  /\ last.op = "Make" /\ last.c = "c" /\ last.t = BarT /\ last.status = "diverge"
  /\ BarT \in DOMAIN vals["c"] /\ vals["c"][BarT] = Alias(TesterT)
  /\ TesterT \in DOMAIN vals["c"] /\ vals["c"][TesterT] = Alias(BarT)
  /\ last.log[1] = [c |-> "c", t |-> BarT, via |-> "alias"]
  /\ last.log[2] = [c |-> "c", t |-> TesterT, via |-> "alias"]
  /\ last.log[3] = last.log[1]

\* every alias is of a type that converts to the type it is bound to, and
\* every instance holds a value of such a type
Compatible ==
  \A c \in Containers : \A t \in DOMAIN vals[c] :
    /\ vals[c][t].k = "alias" => ConvertibleTo(vals[c][t].a, t)
    /\ (vals[c][t].k = "instance" /\ vals[c][t].v.valid) => ConvertibleTo(vals[c][t].v.t, t)

\* the loop of Call over the parameters ts has ended as r: each Value built
\* can be passed for its parameter
Fits(r, ts) ==
  r.status = "ok" =>
    \A i \in 1..Len(ts) : r.v[i].valid => AssignableTo(r.v[i].t, ts[i])

\* C23: after every operation each alias and each instance of every
\* container is of a type convertible to the type it is bound to; RegisterAs
\* binds nothing else, raising instead; and the values a Call builds for the
\* parameters of its function can be passed for them, so that no binding is
\* found not to fit its type while it is resolved
C23_BindingCompatibility ==
  [][/\ Compatible'
     /\ (last'.op = "RegisterAs" /\ ~ConvertibleTo(ArgType(last'.in), last'.t)) =>
          last'.status = "panic" /\ vals' = vals
     /\ (last'.op = "Call" /\ IsFunc(last'.in)) =>
          Fits(buildIn(Now, last'.c, In(last'.in), 1, << >>), In(last'.in))]_vars

\* the closure of the shared provider whose one call made the instance that
\* container n binds to t, if there is one
Cached(n, t) ==
  {id \in 1..Len(provs) :
     /\ provs[id].c = n /\ provs[id].t = t /\ provs[id].shared /\ provs[id].live
     /\ provs[id].calls = 1 /\ vals[n][t] = Instance(provs[id].out)}

\* C24: Make of a type whose nearest binding up the chain of parents is a
\* shared provider calls the provider, once, returns what it produced, and
\* binds that value to the type in the container that held the provider; no
\* other container, the one Make was called on included, gets or loses a
\* binding.  Make of the type where the nearest binding is the value so kept,
\* on that container or on any child of it, returns that same value and
\* calls no provider, so the provider is called once for all of them.
C24_CacheAtHolder ==
  [][(last'.op = "Make" /\ Nearest(last'.c, last'.t, Cardinality(Containers)) # NoParent) =>
       LET n == Nearest(last'.c, last'.t, Cardinality(Containers))
           b == vals[n][last'.t]
       IN /\ (b.k = "provider" /\ b.shared) =>
               /\ last'.status = "ok"
               /\ provs[b.id].calls = 0 /\ provs'[b.id].calls = 1
               /\ provs'[b.id].arg = n
               /\ last'.res = provs'[b.id].out
               /\ vals'[n] = Put(vals[n], last'.t, Instance(last'.res))
               /\ \A d \in Containers \ {n} : vals'[d] = vals[d]
               /\ \E m \in Containers, u \in Types :
                    m = n /\ u = last'.t /\ Cached(m, u)' = {b.id}
          /\ (b.k = "instance" /\ Cached(n, last'.t) # {}) =>
               /\ last'.status = "ok"
               /\ \A id \in Cached(n, last'.t) : last'.res = provs[id].out
               /\ provs' = provs /\ vals' = vals /\ heap' = heap]_vars

\* the parent held a shared provider, c and g are its children and bind
\* nothing, the provider has run once and the parent holds its value, and
\* Make on g has just returned that value through the parent
C24_Witness ==
  /\ last.op = "Make" /\ last.c = "g" /\ last.t = PtrTo(FooT) /\ last.status = "ok"
  /\ parent["c"] = "p" /\ parent["g"] = "p"
  /\ vals["c"] = EmptyMap /\ vals["g"] = EmptyMap
  /\ BoundInstance("p", PtrTo(FooT))
  /\ Cached("p", PtrTo(FooT)) # {}
  /\ last.res = vals["p"][PtrTo(FooT)].v
  /\ last.log = << [c |-> "g", t |-> PtrTo(FooT), via |-> "parent"],
                   [c |-> "p", t |-> PtrTo(FooT), via |-> "instance"] >>

\* the index of the first entry of the log at which a provider was called
FirstCall(log) ==
  CHOOSE i \in 1..Len(log) :
    /\ log[i].via = "provider"
    /\ \A j \in 1..(i - 1) : log[j].via # "provider"

\* C25: a provider called during Make was called with the container that
\* holds its binding, the nearest one up the chain of parents that binds the
\* type, also when Make was called on a child of it; what the provider then
\* resolves through that container is resolved by that container and its
\* parents only: no build call after the provider's is served by the child,
\* and the *Foo the provider asked for is the one its own container binds,
\* or a new one, never the one the child binds
C25_ProviderHandle ==
  [][(/\ last'.op = "Make"
      /\ Nearest(last'.c, last'.t, Cardinality(Containers)) # NoParent
      /\ vals[Nearest(last'.c, last'.t, Cardinality(Containers))][last'.t].k = "provider") =>
       LET n == Nearest(last'.c, last'.t, Cardinality(Containers))
           id == vals[n][last'.t].id
           log == last'.log
       IN /\ last'.status = "ok"
          /\ provs[id].c = n
          /\ provs'[id].calls = provs[id].calls + 1
          /\ provs'[id].arg = n
          /\ \A j \in 1..Len(provs) : j # id => provs'[j] = provs[j]
          /\ \A i \in FirstCall(log)..Len(log) :
               log[i].c \in {n, parent[n]} \ {NoParent}
          /\ n # last'.c => \A i \in FirstCall(log)..Len(log) : log[i].c # last'.c
          /\ provs[id].fn = "newWriter" =>
               /\ last'.res.t = PtrTo(ResponseWriterT)
               /\ BoundInstance(n, PtrTo(FooT)) =>
                    heap'[last'.res.p].f[1] = vals[n][PtrTo(FooT)].v
               /\ (n # last'.c /\ BoundInstance(last'.c, PtrTo(FooT))) =>
                    heap'[last'.res.p].f[1] # vals[last'.c][PtrTo(FooT)].v
               /\ Unbound(n, PtrTo(FooT)) =>
                    /\ heap'[last'.res.p].f[1].p > Len(heap)
                    /\ heap'[heap'[last'.res.p].f[1].p] = Zero(FooT)]_vars

\* child and parent bind *Foo to values of their own, Make of Writer on the
\* child was served by the provider of the parent, which was called with the
\* parent, and the writer it returned holds the *Foo of the parent
C25_Witness ==
  /\ last.op = "Make" /\ last.c = "c" /\ last.t = WriterT /\ last.status = "ok"
  /\ parent["c"] = "p"
  /\ WriterT \notin DOMAIN vals["c"]
  /\ BoundInstance("c", PtrTo(FooT)) /\ BoundInstance("p", PtrTo(FooT))
  /\ vals["c"][PtrTo(FooT)].v # vals["p"][PtrTo(FooT)].v
  /\ \E id \in 1..Len(provs) :
       /\ provs[id].c = "p" /\ provs[id].fn = "newWriter" /\ provs[id].calls = 1
       /\ provs[id].arg = "p" /\ provs[id].out = last.res
  /\ heap[last.res.p].f[1] = vals["p"][PtrTo(FooT)].v
  /\ last.log = << [c |-> "c", t |-> WriterT, via |-> "parent"],
                   [c |-> "p", t |-> WriterT, via |-> "provider"],
                   [c |-> "p", t |-> PtrTo(FooT), via |-> "instance"] >>

====
